---------------------------- MODULE Spec2Model ----------------------------
(***************************************************************************)
(* A model of the nanokoton kernel core: the physical memory manager, the  *)
(* virtual memory manager, the scheduler and the network layers, each as a *)
(* state machine whose actions are the public operations of the C++ code.  *)
(*                                                                         *)
(* Every subsystem has its own specification over the same variables:      *)
(*   SpecPMM    PhysicalMemoryManager (init, allocate, free)               *)
(*   SpecVMM    VirtualMemoryManager on top of an initialised PMM          *)
(*   SpecSched  Scheduler                                                  *)
(*   SpecTCP    TCPLayer and TCPSocket                                     *)
(*   SpecHeap   the kernel heap (kmalloc) on top of the PMM and the VMM    *)
(*   SpecUDP    UDPLayer and UDPSocket                                     *)
(* A specification leaves the variables of the other subsystems alone.     *)
(*                                                                         *)
(* Machine integers: usize and u64 counters are kept as mathematical       *)
(* integers; a negative value n stands for the wrapped value 2^64 + n, so  *)
(* equality of sums in the model is equality modulo 2^64 in the code.      *)
(***************************************************************************)
EXTENDS Integers, Sequences, FiniteSets, TLC

VARIABLES pmm, vmm, sched, tcp, net, lastOp

vars == <<pmm, vmm, sched, tcp, net, lastOp>>

\* The value of an empty Optional<phys_addr> / Optional<usize>.
None == -1

(***************************************************************************)
(*                     PHYSICAL MEMORY MANAGER                             *)
(***************************************************************************)

PAGE_SIZE == 4096
MAX_MEMORY_REGIONS == 32
BITMAP_SIZE == 1048576

align_up(x, a) == ((x + a - 1) \div a) * a
align_down(x, a) == (x \div a) * a
max(a, b) == IF a > b THEN a ELSE b
min(a, b) == IF a < b THEN a ELSE b

\* Memory types of a MemoryMapEntry; only Free becomes allocatable.
MemoryTypes == {"Free", "Reserved", "BadMemory", "KernelAndModules"}

\* The PMM after its constructor: no region, all counters zero, bitmap
\* storage zeroed.  bits is the set of bit positions of bitmap_storage_ that
\* are set; a region's bitmap is the bit position where its bits start
\* (Bitmap is a view of bitmap_storage_ without a copy of the bits).
PmmConstructed ==
    [ inited |-> FALSE,
      regions |-> << >>,
      bits |-> {},
      current_bitmap_offset |-> 0,
      total_memory_ |-> 0, free_memory_ |-> 0, used_memory_ |-> 0,
      reserved_memory_ |-> 0,
      total_pages_ |-> 0, free_pages_ |-> 0, used_pages_ |-> 0 ]

region_count_(p) == Len(p.regions)

\* region.bitmap->test(page)
bitmap_test(p, i, page) == (p.regions[i].bitmap + page) \in p.bits

\* The bit positions of pages lo .. hi-1 of region i.
RegionBits(p, i, lo, hi) == { p.regions[i].bitmap + k : k \in lo .. (hi - 1) }

init_region(p, base0, size0) ==
    IF region_count_(p) >= MAX_MEMORY_REGIONS THEN [pmm |-> p, ret |-> FALSE]
    ELSE IF size0 < PAGE_SIZE THEN [pmm |-> p, ret |-> FALSE]
    ELSE
      LET base == align_up(base0, PAGE_SIZE)
          size == align_down(size0, PAGE_SIZE)
          total == size \div PAGE_SIZE
          bitmap_size == (total \div 8) + (IF total % 8 # 0 THEN 1 ELSE 0)
          off == p.current_bitmap_offset
      IN IF size = 0 THEN [pmm |-> p, ret |-> FALSE]
         ELSE IF off + bitmap_size > BITMAP_SIZE THEN [pmm |-> p, ret |-> FALSE]
         ELSE [ pmm |-> [p EXCEPT
                    !.regions = Append(@, [ base |-> base, size |-> size,
                                            total_pages |-> total,
                                            free_pages |-> total,
                                            bitmap |-> off * 8 ]),
                    !.current_bitmap_offset = off + bitmap_size,
                    !.bits = @ \ { off * 8 + k : k \in 0 .. (total - 1) } ],
                ret |-> TRUE ]

\* mark_region on the regions i .. region_count_: every region that holds
\* base has its pages set to `used`, with the counters moved per changed page.
RECURSIVE mark_region_from(_, _, _, _, _)
mark_region_from(p, i, base, size, used) ==
    IF i > region_count_(p) THEN p
    ELSE
      LET r == p.regions[i]
      IN IF base >= r.base /\ base < r.base + r.size
         THEN
           LET start_page == (base - r.base) \div PAGE_SIZE
               end0 == start_page + (size \div PAGE_SIZE)
               end_page == IF end0 > r.total_pages THEN r.total_pages ELSE end0
               range == RegionBits(p, i, start_page, end_page)
               changed == IF used THEN range \ p.bits ELSE range \cap p.bits
               n == Cardinality(changed)
               d == IF used THEN n ELSE 0 - n
               q == [p EXCEPT
                       !.bits = IF used THEN @ \cup range ELSE @ \ range,
                       !.regions[i].free_pages = @ - d,
                       !.used_pages_ = @ + d,
                       !.free_pages_ = @ - d,
                       !.used_memory_ = @ + d * PAGE_SIZE,
                       !.free_memory_ = @ - d * PAGE_SIZE]
           IN mark_region_from(q, i + 1, base, size, used)
         ELSE mark_region_from(p, i + 1, base, size, used)

mark_region(p, base0, size0, used) ==
    LET base == align_up(base0, PAGE_SIZE)
        size == align_down(size0, PAGE_SIZE)
    IN IF size = 0 THEN p ELSE mark_region_from(p, 1, base, size, used)

\* merge_free_regions: regions_[j] that starts where regions_[i] ends is
\* folded into regions_[i] (size and page counts only) and removed.
RECURSIVE merge_loop(_, _, _)
merge_loop(regs, i, j) ==
    IF i > Len(regs) THEN regs
    ELSE IF j > Len(regs) THEN merge_loop(regs, i + 1, i + 2)
    ELSE IF regs[i].base + regs[i].size = regs[j].base
      THEN LET merged == [regs[i] EXCEPT
                            !.size = @ + regs[j].size,
                            !.total_pages = @ + regs[j].total_pages,
                            !.free_pages = @ + regs[j].free_pages]
               kept == [k \in 1 .. (Len(regs) - 1) |->
                          IF k = i THEN merged
                          ELSE IF k < j THEN regs[k] ELSE regs[k + 1]]
           IN merge_loop(kept, i, j)
      ELSE merge_loop(regs, i, j + 1)

merge_free_regions(p) == [p EXCEPT !.regions = merge_loop(p.regions, 1, 2)]

RECURSIVE SumRegions(_, _)
SumRegions(regs, field) ==
    IF regs = << >> THEN 0
    ELSE (CASE field = "size" -> Head(regs).size
            [] field = "total_pages" -> Head(regs).total_pages
            [] field = "free_pages" -> Head(regs).free_pages)
         + SumRegions(Tail(regs), field)

\* The loop of init over the memory-map entries.
RECURSIVE init_entries(_, _)
init_entries(p, entries) ==
    IF entries = << >> THEN p
    ELSE
      LET e == Head(entries)
          q == IF e.region_type = "Free"
               THEN init_region(p, e.base_address, e.region_length).pmm
               ELSE LET m == mark_region(p, e.base_address, e.region_length, TRUE)
                    IN IF e.region_type \in {"Reserved", "BadMemory"}
                       THEN [m EXCEPT !.reserved_memory_ = @ + e.region_length]
                       ELSE m
      IN init_entries(q, Tail(entries))

\* PhysicalMemoryManager::init(memory_map, entry_count)
pmm_init(p, entries) ==
    LET q == init_entries(p, entries)
        total_memory == SumRegions(q.regions, "size")
        total_pages == SumRegions(q.regions, "total_pages")
        free_pages == SumRegions(q.regions, "free_pages")
        r == [q EXCEPT
                !.total_memory_ = total_memory,
                !.free_memory_ = free_pages * PAGE_SIZE,
                !.total_pages_ = total_pages,
                !.free_pages_ = free_pages,
                !.used_pages_ = total_pages - free_pages,
                !.used_memory_ = total_memory - free_pages * PAGE_SIZE,
                !.inited = TRUE]
    IN merge_free_regions(r)

\* Unsigned comparison a < b of two usize values (negative = wrapped).
ult(a, b) == IF (a < 0) = (b < 0) THEN a < b ELSE b < 0

\* find_free_page_in_region: the first page of region i whose bit is clear.
find_free_page_in_region(p, i) ==
    LET free == { page \in 0 .. (p.regions[i].total_pages - 1) :
                    ~bitmap_test(p, i, page) }
    IN IF free = {} THEN None
       ELSE CHOOSE page \in free : \A other \in free : page <= other

\* A take_pages that forgets the used-page counter.
take_pages_free_only(p, i, count) ==
    [p EXCEPT !.regions[i].free_pages = @ - count,
              !.free_pages_ = @ - count]

\* The counters after `count` pages of region i went from free to used
\* (count < 0: from used to free).
take_pages(p, i, count) ==
    [p EXCEPT !.regions[i].free_pages = @ - count,
              !.free_pages_ = @ - count,
              !.used_pages_ = @ + count,
              !.free_memory_ = @ - count * PAGE_SIZE,
              !.used_memory_ = @ + count * PAGE_SIZE]

RECURSIVE allocate_page_from(_, _)
allocate_page_from(p, i) ==
    IF i > region_count_(p) THEN [pmm |-> p, ret |-> None]
    ELSE LET page == find_free_page_in_region(p, i)
         IN IF page # None
            THEN [ pmm |-> take_pages(
                              [p EXCEPT !.bits = @ \cup RegionBits(p, i, page, page + 1)],
                              i, 1),
                   ret |-> p.regions[i].base + page * PAGE_SIZE ]
            ELSE allocate_page_from(p, i + 1)

\* PhysicalMemoryManager::allocate_page
allocate_page(p) == allocate_page_from(p, 1)

\* The page scan of allocate_pages / allocate_aligned in region i: returns
\* the start page of the first run the loop accepts, or None.  A page counts
\* towards the run only if it is free and its own address is a multiple of
\* alignment; any other page resets the run.
RECURSIVE scan_region(_, _, _, _, _, _, _)
scan_region(p, i, count, alignment, page, consecutive_count, start_page) ==
    IF page >= p.regions[i].total_pages THEN None
    ELSE
      LET candidate_addr == p.regions[i].base + page * PAGE_SIZE
      IN IF candidate_addr % alignment = 0 /\ ~bitmap_test(p, i, page)
         THEN LET start == IF consecutive_count = 0 THEN page ELSE start_page
                  n == consecutive_count + 1
              IN IF n = count
                    /\ \A q \in start .. (start + count - 1) : ~bitmap_test(p, i, q)
                 THEN start
                 ELSE scan_region(p, i, count, alignment, page + 1, n, start)
         ELSE scan_region(p, i, count, alignment, page + 1, 0, start_page)

RECURSIVE allocate_run_from(_, _, _, _)
allocate_run_from(p, i, count, alignment) ==
    IF i > region_count_(p) THEN [pmm |-> p, ret |-> None]
    ELSE IF ult(p.regions[i].free_pages, count)
      THEN allocate_run_from(p, i + 1, count, alignment)
    ELSE LET start == scan_region(p, i, count, alignment, 0, 0, 0)
         IN IF start # None
            THEN [ pmm |-> take_pages(
                      [p EXCEPT !.bits = @ \cup RegionBits(p, i, start, start + count)],
                      i, count),
                   ret |-> p.regions[i].base + start * PAGE_SIZE ]
            ELSE allocate_run_from(p, i + 1, count, alignment)

\* PhysicalMemoryManager::allocate_pages
allocate_pages(p, count) ==
    IF count = 0 THEN [pmm |-> p, ret |-> None]
    ELSE allocate_run_from(p, 1, count, PAGE_SIZE)

\* PhysicalMemoryManager::allocate_aligned
allocate_aligned(p, count, alignment0) ==
    IF count = 0 THEN [pmm |-> p, ret |-> None]
    ELSE LET a == max(alignment0, PAGE_SIZE)
             alignment == IF a % PAGE_SIZE # 0 THEN align_up(a, PAGE_SIZE) ELSE a
         IN allocate_run_from(p, 1, count, alignment)

\* The first region that holds the address, or 0.
region_of(p, addr) ==
    LET hit == { i \in 1 .. region_count_(p) :
                   addr >= p.regions[i].base
                   /\ addr < p.regions[i].base + p.regions[i].size }
    IN IF hit = {} THEN 0 ELSE CHOOSE i \in hit : \A j \in hit : i <= j

\* PhysicalMemoryManager::free_page
free_page(p, page) ==
    IF page % PAGE_SIZE # 0 THEN p
    ELSE LET i == region_of(p, page)
         IN IF i = 0 THEN p
            ELSE LET page_index == (page - p.regions[i].base) \div PAGE_SIZE
                 IN IF page_index >= p.regions[i].total_pages THEN p
                    ELSE IF ~bitmap_test(p, i, page_index) THEN p
                    ELSE take_pages(
                           [p EXCEPT !.bits = @ \ RegionBits(p, i, page_index, page_index + 1)],
                           i, 0 - 1)

\* PhysicalMemoryManager::free_pages: the bits that were set are cleared and
\* the counters move by count whether or not the pages were allocated.
free_pages(p, base, count) ==
    IF base % PAGE_SIZE # 0 THEN p
    ELSE IF count = 0 THEN p
    ELSE LET i == region_of(p, base)
         IN IF i = 0 THEN p
            ELSE LET start_page == (base - p.regions[i].base) \div PAGE_SIZE
                 IN IF start_page + count > p.regions[i].total_pages THEN p
                    ELSE take_pages(
                           [p EXCEPT !.bits = @ \ RegionBits(p, i, start_page, start_page + count)],
                           i, 0 - count)

is_page_free(p, page) ==
    LET i == region_of(p, page)
    IN IF i = 0 THEN FALSE
       ELSE ~bitmap_test(p, i, (page - p.regions[i].base) \div PAGE_SIZE)

is_page_allocated(p, page) ==
    LET i == region_of(p, page)
    IN IF i = 0 THEN FALSE
       ELSE bitmap_test(p, i, (page - p.regions[i].base) \div PAGE_SIZE)

(***************************************************************************)
(* PMM state machine.  The boot memory map is a sequence of at most        *)
(* MaxEntries entries drawn from MapEntries: free ranges that are          *)
(* adjacent, unaligned or too small, and non-free ranges inside and        *)
(* outside the free ones.                                                  *)
(***************************************************************************)
MaxEntries == 2
MaxCount == 2
MaxDrift == 1

Entry(t, b, l) == [region_type |-> t, base_address |-> b, region_length |-> l]

MapEntries ==
    { Entry("Free", 256 * PAGE_SIZE, 3 * PAGE_SIZE),
      Entry("Free", 259 * PAGE_SIZE, PAGE_SIZE),
      Entry("Free", 512 * PAGE_SIZE + 1, PAGE_SIZE + 100),
      Entry("Reserved", 257 * PAGE_SIZE, PAGE_SIZE + 5),
      Entry("KernelAndModules", 256 * PAGE_SIZE, 2 * PAGE_SIZE) }

MemoryMaps ==
    { m \in UNION { [1 .. n -> MapEntries] : n \in 0 .. MaxEntries } :
        \A i, j \in DOMAIN m : i # j => m[i] # m[j] }

\* Arguments of free_page / free_pages: every page of every region, the
\* address one past a region, an unaligned address and an address in no region.
PmmAddrs(p) ==
    UNION { { p.regions[i].base + k * PAGE_SIZE : k \in 0 .. p.regions[i].total_pages }
            : i \in 1 .. region_count_(p) }
    \cup { 256 * PAGE_SIZE + 1, 0 }

Alignments == { 0, PAGE_SIZE + 1, 2 * PAGE_SIZE }

Op(name, args, ret) == [op |-> name, args |-> args, ret |-> ret]

\* The counters stay within MaxDrift of the page total (a bound of the
\* model on the growth that free_pages of free pages causes).
PmmBounded(p) ==
    /\ p.free_pages_ <= p.total_pages_ + MaxDrift
    /\ \A i \in 1 .. region_count_(p) :
          p.regions[i].free_pages <= p.regions[i].total_pages + MaxDrift
          /\ p.regions[i].free_pages >= 0 - MaxDrift

\* init is called once, at boot, with one of the given memory maps.
PmmInitWith(maps) ==
    /\ ~pmm.inited
    /\ \E m \in maps :
          /\ pmm' = pmm_init(pmm, m)
          /\ lastOp' = Op("pmm_init", <<Len(m)>>, None)
    /\ UNCHANGED <<vmm, sched, tcp, net>>

PmmInit == PmmInitWith(MemoryMaps)

PmmAllocatePage ==
    /\ pmm.inited
    /\ LET r == allocate_page(pmm)
       IN /\ PmmBounded(r.pmm)
          /\ pmm' = r.pmm
          /\ lastOp' = Op("allocate_page", << >>, r.ret)
    /\ UNCHANGED <<vmm, sched, tcp, net>>

PmmAllocatePages ==
    /\ pmm.inited
    /\ \E count \in 0 .. MaxCount :
          LET r == allocate_pages(pmm, count)
          IN /\ pmm' = r.pmm
             /\ lastOp' = Op("allocate_pages", <<count>>, r.ret)
    /\ UNCHANGED <<vmm, sched, tcp, net>>

PmmAllocateAligned ==
    /\ pmm.inited
    /\ \E count \in 0 .. MaxCount, alignment \in Alignments :
          LET r == allocate_aligned(pmm, count, alignment)
          IN /\ pmm' = r.pmm
             /\ lastOp' = Op("allocate_aligned", <<count, alignment>>, r.ret)
    /\ UNCHANGED <<vmm, sched, tcp, net>>

PmmFreePage ==
    /\ pmm.inited
    /\ \E page \in PmmAddrs(pmm) :
          /\ pmm' = free_page(pmm, page)
          /\ lastOp' = Op("free_page", << >>, None)
    /\ UNCHANGED <<vmm, sched, tcp, net>>

PmmFreePages ==
    /\ pmm.inited
    /\ \E base \in PmmAddrs(pmm), count \in 0 .. MaxCount :
          /\ PmmBounded(free_pages(pmm, base, count))
          /\ pmm' = free_pages(pmm, base, count)
          /\ lastOp' = Op("free_pages", << >>, None)
    /\ UNCHANGED <<vmm, sched, tcp, net>>

NextPMM ==
    \/ PmmInit
    \/ PmmAllocatePage
    \/ PmmAllocatePages
    \/ PmmAllocateAligned
    \/ PmmFreePage
    \/ PmmFreePages

\* C1 as stated: with the reserved memory counted in pages, used + free +
\* reserved equals total after initialisation and after every allocation
\* and free.
C1_Stated ==
    pmm.inited =>
       pmm.used_pages_ + pmm.free_pages_ + (pmm.reserved_memory_ \div PAGE_SIZE)
          = pmm.total_pages_

\* C1 (amended): after initialisation from any memory map and after any
\* sequence of allocate_page, allocate_pages, allocate_aligned, free_page
\* and free_pages calls, used_pages + free_pages = total_pages (modulo 2^64);
\* reserved memory is a byte counter of its own and is no part of total.
C1_UsedPlusFreeIsTotal ==
    pmm.inited => pmm.used_pages_ + pmm.free_pages_ = pmm.total_pages_

\* C1 witness: a map with reserved memory was loaded, pages were allocated
\* and a free_pages call of pages that were already free has wrapped used.
C1_Witness ==
    /\ pmm.inited
    /\ pmm.reserved_memory_ > 0
    /\ pmm.total_pages_ > 0
    /\ lastOp.op = "free_pages"
    /\ pmm.used_pages_ < 0
    /\ pmm.bits # {}

(***************************************************************************)
(*                      VIRTUAL MEMORY MANAGER                             *)
(*                                                                         *)
(* A 64-bit virtual address is three limbs: hi = bits 39..63, mid = bits   *)
(* 21..38, lo = bits 0..20.  Physical addresses in the model stay below    *)
(* 2^31 and are plain integers.  Physical memory holding page tables is    *)
(* mem: a function from <<table address, index>> to the entry stored       *)
(* there; a pair outside its domain holds an all-zero entry.               *)
(***************************************************************************)

PAGE_TABLE_LEVELS == 4
PAGE_TABLE_ENTRIES == 512

LoLimb == 2097152
MidLimb == 262144
HiLimb == 33554432

VA(hi, mid, lo) == [hi |-> hi, mid |-> mid, lo |-> lo]

\* 0xFFFFFFFF80000000, 0xFFFF800000000000, 0x400000
KERNEL_BASE == VA(33554431, 261120, 0)
KERNEL_HEAP_BASE == VA(33554176, 0, 0)
USER_BASE == VA(0, 2, 0)
\* 0x100000000
KERNEL_HEAP_SIZE == VA(0, 2048, 0)

\* virt + n for 0 <= n < 2^31, modulo 2^64
VAdd(v, n) ==
    LET lo == v.lo + n
        mid == v.mid + (lo \div LoLimb)
        hi == v.hi + (mid \div MidLimb)
    IN VA(hi % HiLimb, mid % MidLimb, lo % LoLimb)

\* a + b modulo 2^64
VPlus(a, b) ==
    LET lo == a.lo + b.lo
        mid == a.mid + b.mid + (lo \div LoLimb)
        hi == a.hi + b.hi + (mid \div MidLimb)
    IN VA(hi % HiLimb, mid % MidLimb, lo % LoLimb)

\* indices[i] = (address >> (12 + 9 * i)) & 0x1FF
indices(v, i) ==
    CASE i = 3 -> v.hi % PAGE_TABLE_ENTRIES
      [] i = 2 -> v.mid \div PAGE_TABLE_ENTRIES
      [] i = 1 -> v.mid % PAGE_TABLE_ENTRIES
      [] i = 0 -> v.lo \div PAGE_SIZE

\* virt & (PAGE_SIZE - 1)
page_offset(v) == v.lo % PAGE_SIZE

PageFlagNames ==
    { "Present", "Writable", "UserAccessible", "WriteThrough",
      "CacheDisabled", "Global", "NoExecute" }

\* PageTableEntry(): raw = 0.  address is the 40-bit frame field.
ZeroEntry ==
    [ present |-> FALSE, writable |-> FALSE, user |-> FALSE,
      write_through |-> FALSE, cache_disabled |-> FALSE, huge |-> FALSE,
      global |-> FALSE, no_execute |-> FALSE, address |-> 0 ]

get_address(e) == e.address * PAGE_SIZE
set_address(e, addr) == [e EXCEPT !.address = addr \div PAGE_SIZE]

ReadEntry(mem, table, idx) ==
    IF <<table, idx>> \in DOMAIN mem THEN mem[<<table, idx>>] ELSE ZeroEntry

WriteEntry(mem, table, idx, e) ==
    LET keys == IF e = ZeroEntry THEN DOMAIN mem \ { <<table, idx>> }
                ELSE DOMAIN mem \cup { <<table, idx>> }
    IN [ k \in keys |-> IF k = <<table, idx>> THEN e ELSE mem[k] ]

\* memset(table, 0, PAGE_SIZE)
ZeroTable(mem, table) ==
    [ k \in { x \in DOMAIN mem : x[1] # table } |-> mem[k] ]

\* AddressSpace()
NewAddressSpace(pml4) ==
    [ pml4 |-> pml4, reference_count |-> 1, allocated_pages |-> 0,
      mapped_pages |-> 0 ]

\* The VMM after its constructor.  installed, removed, held and released
\* are history: the present mappings map_page has installed in each space,
\* the addresses unmap_page has removed, the frames callers got from the PMM
\* and have not yet mapped, and the spaces whose process has been destroyed.
VmmConstructed ==
    [ inited |-> FALSE, panicked |-> FALSE,
      spaces |-> << >>, kernel_space_ |-> 0, current_space_ |-> 0,
      kernel_heap_current_ |-> VA(0, 0, 0), kernel_heap_end_ |-> VA(0, 0, 0),
      mem |-> << >>,
      installed |-> {}, removed |-> {}, held |-> {}, released |-> {} ]

\* A VMM operation works on a pair st = [vmm, pmm] and returns the pair
\* with its result.
St(v, p) == [vmm |-> v, pmm |-> p]
Res(st, ret) == [st |-> st, ret |-> ret]

\* The value of a set with one element.  { e(x) : x \in { v } } evaluates v
\* once before e uses it, as a statement sequence does.
The(S) == CHOOSE x \in S : TRUE

pml4_of(vm) == vm.spaces[vm.current_space_].pml4

\* get_next_table(&table[idx], level, allocate): the address of the next
\* table, or None.
get_next_table(st, table, idx, level, allocate) ==
    LET entry == ReadEntry(st.vmm.mem, table, idx)
    IN IF entry.present THEN Res(st, get_address(entry))
       ELSE IF ~allocate THEN Res(st, None)
       ELSE The({
         IF a.ret = None THEN Res(St(st.vmm, a.pmm), None)
         ELSE
           LET fresh == [set_address(ZeroEntry, a.ret) EXCEPT
                           !.present = TRUE, !.writable = TRUE,
                           !.user = (level = 0)]
               mem1 == ZeroTable(st.vmm.mem, a.ret)
               mem2 == WriteEntry(mem1, table, idx, fresh)
               vm == [st.vmm EXCEPT
                        !.mem = mem2,
                        !.spaces[st.vmm.current_space_].allocated_pages = @ + 1]
           IN Res(St(vm, a.pmm), get_address(fresh))
         : a \in { allocate_page(st.pmm) } })

\* walk_page_table from table `current` at level i: [ret, level].
RECURSIVE walk_from(_, _, _, _)
walk_from(mem, current, address, i) ==
    LET entry == ReadEntry(mem, current, indices(address, i))
    IN IF ~entry.present THEN [ret |-> None, level |-> i]
       ELSE IF i = 0 THEN [ret |-> get_address(entry), level |-> 0]
       ELSE IF entry.huge THEN [ret |-> get_address(entry), level |-> i]
       ELSE walk_from(mem, get_address(entry), address, i - 1)

walk_page_table(vm, address) ==
    walk_from(vm.mem, pml4_of(vm), address, PAGE_TABLE_LEVELS - 1)

\* The leaf entry map_page_internal writes.
leaf_entry(phys, flags) ==
    [set_address(ZeroEntry, phys) EXCEPT
       !.present = ("Present" \in flags),
       !.writable = ("Writable" \in flags),
       !.user = ("UserAccessible" \in flags),
       !.write_through = ("WriteThrough" \in flags),
       !.cache_disabled = ("CacheDisabled" \in flags),
       !.global = ("Global" \in flags),
       !.no_execute = ("NoExecute" \in flags)]

\* map_page_internal below level i, with `current` the table of level i.
RECURSIVE map_from(_, _, _, _, _, _)
map_from(st, current, i, virt, phys, flags) ==
    IF i > 0
    THEN The({ IF next.ret = None THEN Res(next.st, FALSE)
               ELSE map_from(next.st, next.ret, i - 1, virt, phys, flags)
               : next \in { get_next_table(st, current, indices(virt, i), i, TRUE) } })
    ELSE LET entry == ReadEntry(st.vmm.mem, current, indices(virt, 0))
         IN IF entry.present THEN Res(st, FALSE)
            ELSE Res(St([st.vmm EXCEPT
                           !.mem = WriteEntry(@, current, indices(virt, 0),
                                              leaf_entry(phys, flags)),
                           !.spaces[st.vmm.current_space_].mapped_pages = @ + 1],
                        st.pmm),
                     TRUE)

map_page_internal(st, virt, phys, flags) ==
    IF page_offset(virt) # 0 \/ phys % PAGE_SIZE # 0 THEN Res(st, FALSE)
    ELSE map_from(st, pml4_of(st.vmm), PAGE_TABLE_LEVELS - 1, virt, phys, flags)

\* An unmap that reports success and leaves the tables as they are.
unmap_page_keep_entry(st, virt) ==
    IF page_offset(virt) # 0 THEN Res(st, FALSE)
    ELSE Res(st, walk_page_table(st.vmm, virt).ret # None)

\* tables[i] of unmap_page_internal: the table of level i on the path of
\* virt, or None when an entry above it is not present.
RECURSIVE table_at(_, _, _)
table_at(vm, virt, i) ==
    IF i = PAGE_TABLE_LEVELS - 1 THEN pml4_of(vm)
    ELSE LET up == table_at(vm, virt, i + 1)
         IN IF up = None THEN None
            ELSE LET entry == ReadEntry(vm.mem, up, indices(virt, i + 1))
                 IN IF entry.present THEN get_address(entry) ELSE None

TableEmpty(mem, table) ==
    \A k \in DOMAIN mem : k[1] = table => ~mem[k].present

\* The loop of unmap_page_internal that frees emptied tables, from level i
\* up, over the tables recorded before the leaf was cleared.  The PML4 has
\* no parent: for it the write to tables[4] lands outside the page tables.
RECURSIVE prune_from(_, _, _, _)
prune_from(st, tables, virt, i) ==
    IF i >= PAGE_TABLE_LEVELS THEN st
    ELSE IF TableEmpty(st.vmm.mem, tables[i])
      THEN LET pm == free_page(st.pmm, tables[i])
               mem == IF i + 1 < PAGE_TABLE_LEVELS
                      THEN WriteEntry(st.vmm.mem, tables[i + 1],
                                      indices(virt, i + 1), ZeroEntry)
                      ELSE st.vmm.mem
               vm == [st.vmm EXCEPT
                        !.mem = mem,
                        !.spaces[st.vmm.current_space_].allocated_pages = @ - 1]
           IN The({ prune_from(next, tables, virt, i + 1) : next \in { St(vm, pm) } })
      ELSE prune_from(st, tables, virt, i + 1)

unmap_page_internal(st, virt) ==
    IF page_offset(virt) # 0 THEN Res(st, FALSE)
    ELSE
      The({
        IF tables[0] = None THEN Res(st, FALSE)
        ELSE
          LET entry == ReadEntry(st.vmm.mem, tables[0], indices(virt, 0))
          IN IF ~entry.present THEN Res(st, FALSE)
             ELSE
               LET pm == free_page(st.pmm, get_address(entry))
                   vm == [st.vmm EXCEPT
                            !.mem = WriteEntry(@, tables[0], indices(virt, 0), ZeroEntry),
                            !.spaces[st.vmm.current_space_].mapped_pages = @ - 1]
               IN The({ Res(prune_from(cleared, tables, virt, 1), TRUE)
                        : cleared \in { St(vm, pm) } })
        : tables \in { [i \in 0 .. (PAGE_TABLE_LEVELS - 1) |-> table_at(st.vmm, virt, i)] } })

\* A translation that drops the offset within the page.
get_physical_frame(vm, virt) == walk_page_table(vm, virt).ret

\* VirtualMemoryManager::get_physical_address
get_physical_address(vm, virt) ==
    LET w == walk_page_table(vm, virt)
    IN IF w.ret = None THEN None
       ELSE IF w.level = 0 THEN w.ret + page_offset(virt)
       ELSE IF w.level = 1 THEN w.ret + virt.lo
       ELSE IF w.level = 2
         THEN w.ret + (virt.mid % PAGE_TABLE_ENTRIES) * LoLimb + virt.lo
       ELSE w.ret + virt.mid * LoLimb + virt.lo

\* The history after map_page(virt, phys, flags) returned ok: a mapping
\* written with Present is live at virt.
NoteMap(vm, virt, phys, flags, ok) ==
    IF ok /\ "Present" \in flags
    THEN [vm EXCEPT
            !.installed = @ \cup { [space |-> vm.current_space_,
                                    virt |-> virt, phys |-> phys] },
            !.removed = @ \ { [space |-> vm.current_space_, virt |-> virt] },
            !.held = @ \ { phys }]
    ELSE IF ok THEN [vm EXCEPT !.held = @ \ { phys }]
    ELSE vm

\* The history after unmap_page(virt) returned ok.
NoteUnmap(vm, virt, ok) ==
    IF ok
    THEN [vm EXCEPT
            !.installed = { m \in @ : ~(m.space = vm.current_space_ /\ m.virt = virt) },
            !.removed = @ \cup { [space |-> vm.current_space_, virt |-> virt] }]
    ELSE vm

\* VirtualMemoryManager::map_page
map_page(st, virt, phys, flags) ==
    The({ Res(St(NoteMap(r.st.vmm, virt, phys, flags, r.ret), r.st.pmm), r.ret)
          : r \in { map_page_internal(st, virt, phys, flags) } })

\* VirtualMemoryManager::unmap_page
unmap_page(st, virt) ==
    The({ Res(St(NoteUnmap(r.st.vmm, virt, r.ret), r.st.pmm), r.ret)
          : r \in { unmap_page_internal(st, virt) } })

\* The rollback loop of map_pages: pages 0 .. i-1 are unmapped again.
RECURSIVE unmap_first(_, _, _, _)
unmap_first(st, virt, j, i) ==
    IF j >= i THEN st
    ELSE The({ unmap_first(r.st, virt, j + 1, i)
               : r \in { unmap_page(st, VAdd(virt, j * PAGE_SIZE)) } })

\* VirtualMemoryManager::map_pages, from page i on.
RECURSIVE map_pages_from(_, _, _, _, _, _)
map_pages_from(st, virt, phys, count, flags, i) ==
    IF i >= count THEN Res(st, TRUE)
    ELSE The({ IF ~r.ret THEN Res(unmap_first(r.st, virt, 0, i), FALSE)
               ELSE map_pages_from(r.st, virt, phys, count, flags, i + 1)
               : r \in { map_page(st, VAdd(virt, i * PAGE_SIZE),
                                  phys + i * PAGE_SIZE, flags) } })

map_pages(st, virt, phys, count, flags) ==
    map_pages_from(st, virt, phys, count, flags, 0)

\* VirtualMemoryManager::unmap_pages, from page i on.
RECURSIVE unmap_pages_from(_, _, _, _, _)
unmap_pages_from(st, virt, count, i, success) ==
    IF i >= count THEN Res(st, success)
    ELSE The({ unmap_pages_from(r.st, virt, count, i + 1, success /\ r.ret)
               : r \in { unmap_page(st, VAdd(virt, i * PAGE_SIZE)) } })

unmap_pages(st, virt, count) == unmap_pages_from(st, virt, count, 0, TRUE)

\* a > b for 64-bit addresses
VGreater(a, b) ==
    \/ a.hi > b.hi
    \/ a.hi = b.hi /\ a.mid > b.mid
    \/ a.hi = b.hi /\ a.mid = b.mid /\ a.lo > b.lo

\* nullptr
NullPtr == VA(0, 0, 0)

\* The rollback loops of kmalloc: for pages j .. i-1 of the call the frame
\* the page translates to is freed and the page is unmapped.
RECURSIVE kmalloc_release(_, _, _)
kmalloc_release(st, j, i) ==
    IF j >= i THEN st
    ELSE The({
      The({ The({ kmalloc_release(r.st, j + 1, i)
                  : r \in { unmap_page(freed, free_virt) } })
            : freed \in { IF get_physical_address(st.vmm, free_virt) # None
                          THEN St(st.vmm,
                                  free_page(st.pmm,
                                            get_physical_address(st.vmm, free_virt)))
                          ELSE st } })
      : free_virt \in { VAdd(st.vmm.kernel_heap_current_, j * PAGE_SIZE) } })

\* The loop of kmalloc over pages i .. pages_needed-1.
RECURSIVE kmalloc_from(_, _, _)
kmalloc_from(st, pages_needed, i) ==
    IF i >= pages_needed
    THEN Res(St([st.vmm EXCEPT
                   !.kernel_heap_current_ = VAdd(@, pages_needed * PAGE_SIZE)],
                st.pmm),
             st.vmm.kernel_heap_current_)
    ELSE The({
      IF a.ret = None
      THEN Res(kmalloc_release(St(st.vmm, a.pmm), 0, i), NullPtr)
      ELSE The({
        IF ~m.ret
        THEN Res(kmalloc_release(St(m.st.vmm, free_page(m.st.pmm, a.ret)), 0, i),
                 NullPtr)
        ELSE kmalloc_from(m.st, pages_needed, i + 1)
        : m \in { map_page(St(st.vmm, a.pmm),
                           VAdd(st.vmm.kernel_heap_current_, i * PAGE_SIZE), a.ret,
                           {"Present", "Writable", "Global"}) } })
      : a \in { allocate_page(st.pmm) } })

\* VirtualMemoryManager::kmalloc
kmalloc(st, size) ==
    IF size = 0 THEN Res(st, NullPtr)
    ELSE IF VGreater(VAdd(st.vmm.kernel_heap_current_, align_up(size, 16)),
                     st.vmm.kernel_heap_end_)
      THEN Res(st, NullPtr)
    ELSE kmalloc_from(st, align_up(align_up(size, 16), PAGE_SIZE) \div PAGE_SIZE, 0)

\* Physical addresses map_kernel_regions maps: the kernel image at 1 MiB
\* and the VGA text buffer.
KERNEL_PHYSICAL == 1048576
VGA_BUFFER == 753664

\* The number of pages between _kernel_start and _kernel_end.
KernelPages == 1

RECURSIVE map_kernel_pages(_, _, _)
map_kernel_pages(st, i, pages) ==
    IF i >= pages THEN st
    ELSE The({ map_kernel_pages(r.st, i + 1, pages)
               : r \in { map_page(st, VAdd(KERNEL_BASE, i * PAGE_SIZE),
                                  KERNEL_PHYSICAL + i * PAGE_SIZE,
                                  {"Present", "Writable", "Global"}) } })

\* VirtualMemoryManager::map_kernel_regions
map_kernel_regions(st) ==
    The({ map_page(mapped, VA(0, 0, VGA_BUFFER), VGA_BUFFER,
                   {"Present", "Writable", "CacheDisabled"}).st
          : mapped \in { map_kernel_pages(st, 0, KernelPages) } })

\* VirtualMemoryManager::init; without a frame for the PML4 it panics.
vmm_init(st) ==
    The({
      IF a.ret = None
      THEN St([st.vmm EXCEPT !.panicked = TRUE], a.pmm)
      ELSE The({ map_kernel_regions(made) : made \in {
             St([st.vmm EXCEPT
                   !.inited = TRUE,
                   !.mem = ZeroTable(@, a.ret),
                   !.spaces = <<NewAddressSpace(a.ret)>>,
                   !.kernel_space_ = 1,
                   !.current_space_ = 1,
                   !.kernel_heap_current_ = KERNEL_HEAP_BASE,
                   !.kernel_heap_end_ = VPlus(KERNEL_HEAP_BASE, KERNEL_HEAP_SIZE)],
                a.pmm) } })
      : a \in { allocate_page(st.pmm) } })

(***************************************************************************)
(* VMM state machine.  The machine boots with VmmFrames frames of free     *)
(* memory at 1 MiB whose first KernelPages frames hold the kernel image.   *)
(* Callers map frames they got from the PMM (each frame at one address at  *)
(* a time, as kmalloc and the drivers do) and device memory outside the    *)
(* PMM's regions.  Translations are read by get_physical_address, which    *)
(* changes nothing and is evaluated in the properties.                     *)
(***************************************************************************)
VmmFrames == 12

VmmBootMaps ==
    { << Entry("Free", KERNEL_PHYSICAL, VmmFrames * PAGE_SIZE),
         Entry("KernelAndModules", KERNEL_PHYSICAL, KernelPages * PAGE_SIZE) >> }

VmmVirts ==
    { KERNEL_BASE, KERNEL_HEAP_BASE, VAdd(KERNEL_HEAP_BASE, PAGE_SIZE),
      VAdd(KERNEL_HEAP_BASE, 66) }

\* Device memory: the frames of the VGA buffer.
DeviceFrames == { VGA_BUFFER + i * PAGE_SIZE : i \in 0 .. MaxCount }

\* What callers map: a frame they hold, read-write; device memory,
\* read-write or as an entry without Present; an unaligned address.
MapRequests(held) ==
    { [phys |-> f, flags |-> {"Present", "Writable"}] : f \in held }
    \cup { [phys |-> VGA_BUFFER, flags |-> {"Present", "Writable", "CacheDisabled"}],
           [phys |-> VGA_BUFFER, flags |-> {"Writable"}],
           [phys |-> VGA_BUFFER + 1, flags |-> {"Present", "Writable"}] }

PageOffsets == { 0, 1, 66, PAGE_SIZE - 1 }

VmmReady == vmm.inited /\ ~vmm.panicked

\* mapped_pages grows with every entry written without Present; the model
\* stops counting at the number of addresses it maps.
VmmBounded(vm) ==
    vm.spaces[vm.current_space_].mapped_pages <= Cardinality(VmmVirts)

VmmBoot == PmmInitWith(VmmBootMaps)

VmmInit ==
    /\ pmm.inited /\ ~vmm.inited /\ ~vmm.panicked
    /\ \E st \in { vmm_init(st0) : st0 \in { St(vmm, pmm) } } :
          /\ vmm' = st.vmm
          /\ pmm' = st.pmm
    /\ lastOp' = Op("vmm_init", << >>, None)
    /\ UNCHANGED <<sched, tcp, net>>

\* A caller that holds no frame takes one from the PMM.
VmmAllocFrame ==
    /\ VmmReady
    /\ vmm.held = {}
    /\ \E r \in { allocate_page(pmm) } :
          /\ r.ret # None
          /\ pmm' = r.pmm
          /\ vmm' = [vmm EXCEPT !.held = { r.ret }]
    /\ lastOp' = Op("allocate_page", << >>, None)
    /\ UNCHANGED <<sched, tcp, net>>

VmmMapPage ==
    /\ VmmReady
    /\ \E virt \in VmmVirts, req \in MapRequests(vmm.held) :
          \E r \in { map_page(St(vmm, pmm), virt, req.phys, req.flags) } :
             /\ VmmBounded(r.st.vmm)
             /\ vmm' = r.st.vmm
             /\ pmm' = r.st.pmm
             /\ lastOp' = Op("map_page", << >>, r.ret)
    /\ UNCHANGED <<sched, tcp, net>>

VmmUnmapPage ==
    /\ VmmReady
    /\ \E virt \in VmmVirts :
          \E r \in { unmap_page(St(vmm, pmm), virt) } :
             /\ vmm' = r.st.vmm
             /\ pmm' = r.st.pmm
             /\ lastOp' = Op("unmap_page", << >>, r.ret)
    /\ UNCHANGED <<sched, tcp, net>>

\* map_pages of MaxCount pages of device memory on the kernel heap.
VmmMapPages ==
    /\ VmmReady
    /\ \E r \in { map_pages(St(vmm, pmm), KERNEL_HEAP_BASE, VGA_BUFFER, MaxCount,
                             {"Present", "Writable", "CacheDisabled"}) } :
          /\ VmmBounded(r.st.vmm)
          /\ vmm' = r.st.vmm
          /\ pmm' = r.st.pmm
          /\ lastOp' = Op("map_pages", << >>, r.ret)
    /\ UNCHANGED <<sched, tcp, net>>

VmmUnmapPages ==
    /\ VmmReady
    /\ \E r \in { unmap_pages(St(vmm, pmm), KERNEL_HEAP_BASE, MaxCount) } :
          /\ vmm' = r.st.vmm
          /\ pmm' = r.st.pmm
          /\ lastOp' = Op("unmap_pages", << >>, r.ret)
    /\ UNCHANGED <<sched, tcp, net>>

NextVMM ==
    \/ VmmBoot
    \/ VmmInit
    \/ VmmAllocFrame
    \/ VmmMapPage
    \/ VmmUnmapPage
    \/ VmmMapPages
    \/ VmmUnmapPages

\* C2: every live mapping (v, p) that map_page installed translates at
\* every offset o of the page, get_physical_address(v + o) = p + o, and an
\* address that unmap_page removed translates to None until it is mapped
\* again.
C2_Translation ==
    vmm.inited =>
      /\ \A m \in vmm.installed :
            m.space = vmm.current_space_ =>
              \A o \in PageOffsets :
                 get_physical_address(vmm, VAdd(m.virt, o)) = m.phys + o
      /\ \A r \in vmm.removed :
            r.space = vmm.current_space_ =>
              get_physical_address(vmm, r.virt) = None

\* C2 witness: a frame from the PMM is mapped on the kernel heap next to an
\* address that was mapped and has just been unmapped.
C2_Witness ==
    /\ vmm.inited
    /\ lastOp.op = "unmap_page" /\ lastOp.ret = TRUE
    /\ \E m \in vmm.installed :
          m.virt = KERNEL_HEAP_BASE /\ m.phys \notin DeviceFrames
    /\ [space |-> vmm.current_space_, virt |-> VAdd(KERNEL_HEAP_BASE, PAGE_SIZE)]
          \in vmm.removed

(***************************************************************************)
(* Kernel heap state machine.  The machine boots with between              *)
(* MinHeapFrames and MaxHeapFrames frames of free memory at 1 MiB, so that *)
(* kmalloc runs out of frames at every point of its loop, in the frame     *)
(* for a page as well as in the frames for the page tables above it.       *)
(***************************************************************************)
MinHeapFrames == 9
MaxHeapFrames == 20

HeapBootMaps ==
    { << Entry("Free", KERNEL_PHYSICAL, n * PAGE_SIZE),
         Entry("KernelAndModules", KERNEL_PHYSICAL, KernelPages * PAGE_SIZE) >>
      : n \in MinHeapFrames .. MaxHeapFrames }

\* Sizes a caller asks kmalloc for: nothing, one page, two and three pages.
KmallocSizes == { 0, 16, PAGE_SIZE + 1, 2 * PAGE_SIZE + 1 }

HeapBoot == PmmInitWith(HeapBootMaps)

VmmKmalloc ==
    /\ VmmReady
    /\ \E size \in KmallocSizes :
          \E r \in { kmalloc(St(vmm, pmm), size) } :
             /\ vmm' = r.st.vmm
             /\ pmm' = r.st.pmm
             /\ lastOp' = Op("kmalloc", <<size>>, r.ret)
    /\ UNCHANGED <<sched, tcp, net>>

NextHeap ==
    \/ HeapBoot
    \/ VmmInit
    \/ VmmKmalloc

(***************************************************************************)
(*                             SCHEDULER                                   *)
(*                                                                         *)
(* Threads are numbered: 0 is the idle thread Scheduler::init creates,     *)
(* 1 .. MaxThreads are threads of user processes (thread t belongs to      *)
(* process t), created Ready by Process::create_thread.  A null Thread*    *)
(* is None.  clock is the time-stamp counter.  lib/mutex.hpp is not part   *)
(* of the sources: mutex_recursive tells whether the Mutex of the build    *)
(* lets its holder acquire it again or spins for ever (hung).              *)
(***************************************************************************)

RUN_QUEUES == 4
TIME_SLICE_DEFAULT == 10000
CYCLES_PER_MS == 1000000

IdleThread == 0
MaxThreads == 2
UserThreads == 1 .. MaxThreads

ThreadStates == { "Created", "Ready", "Running", "Blocked", "Sleeping", "Dead" }

\* Thread::Thread: a created thread is Ready.
NewThread == [ state |-> "Ready", sleep_until |-> 0 ]

\* The scheduler after its constructor, with the user threads created.
\* deleted is the set of Thread objects that have been destroyed and
\* processes_ the pids of the user processes of the process manager;
\* tick_log and tick_start are history: the thread that was current after
\* each of the timer ticks that followed one another without another
\* scheduler call in between, and the situation before the first of them.
SchedConstructed ==
    [ inited |-> FALSE,
      idle_thread_ |-> None, current_thread_ |-> None,
      policy_ |-> "RoundRobin",
      time_slice_default_ |-> TIME_SLICE_DEFAULT,
      last_schedule_time_ |-> 0,
      run_queues_ |-> [ q \in 0 .. (RUN_QUEUES - 1) |->
                          [ threads |-> << >>, current_index |-> 0 ] ],
      threads |-> [ t \in UserThreads |-> NewThread ],
      deleted |-> {},
      processes_ |-> UserThreads,
      lock_ |-> 0, hung |-> FALSE, mutex_recursive |-> FALSE,
      clock |-> 0,
      tick_log |-> << >>,
      tick_start |-> [ current |-> None,
                       ready |-> [ q \in 0 .. (RUN_QUEUES - 1) |-> << >> ],
                       slice |-> TIME_SLICE_DEFAULT ] ]

\* ScopedLock lock(lock_) and its destructor.
Lock(s) ==
    IF s.lock_ = 0 \/ s.mutex_recursive THEN [s EXCEPT !.lock_ = @ + 1]
    ELSE [s EXCEPT !.hung = TRUE]

Unlock(s) == IF s.hung THEN s ELSE [s EXCEPT !.lock_ = @ - 1]

\* Vector::erase(i), with i counted from 1.
erase(seq, i) == SubSeq(seq, 1, i - 1) \o SubSeq(seq, i + 1, Len(seq))

\* The threads a process of the model owns are never those of a Zombie or
\* Dead process: destroy_process deletes the process in the same call.
validate_thread(s, t) ==
    /\ t # None
    /\ s.threads[t].state # "Dead"

should_wake_up(s, t, current_time) ==
    s.threads[t].state = "Sleeping" /\ current_time >= s.threads[t].sleep_until

calculate_time_slice(s, t) ==
    CASE s.policy_ = "RoundRobin" -> s.time_slice_default_
      [] s.policy_ = "RealTime" -> s.time_slice_default_ * 2
      [] OTHER -> s.time_slice_default_

calculate_priority(s, t) ==
    LET priority == CASE s.policy_ = "RoundRobin" -> 1
                      [] s.policy_ = "RealTime" -> 0
                      [] s.policy_ = "Fair" -> 2
                      [] OTHER -> 1
    IN min(priority, RUN_QUEUES - 1)

\* Scheduler::add_thread
add_thread(s, t) ==
    The({ IF l.hung THEN l
          ELSE IF ~validate_thread(l, t) THEN Unlock(l)
          ELSE Unlock([l EXCEPT
                         !.threads[t].state = "Ready",
                         !.run_queues_[calculate_priority(l, t)].threads =
                             Append(@, t)])
          : l \in { Lock(s) } })

\* Scheduler::remove_thread: the first entry of thread t is erased.
remove_thread(s, t) ==
    The({ IF l.hung THEN l
          ELSE LET holding == { q \in DOMAIN l.run_queues_ :
                                  \E i \in DOMAIN l.run_queues_[q].threads :
                                     l.run_queues_[q].threads[i] = t }
               IN IF holding = {} THEN Unlock(l)
                  ELSE LET q == CHOOSE x \in holding : \A y \in holding : x <= y
                           i == CHOOSE x \in DOMAIN l.run_queues_[q].threads :
                                  /\ l.run_queues_[q].threads[x] = t
                                  /\ \A y \in 1 .. (x - 1) :
                                        l.run_queues_[q].threads[y] # t
                       IN Unlock([l EXCEPT
                                    !.run_queues_[q].threads = erase(@, i),
                                    !.current_thread_ =
                                        IF t = @ THEN l.idle_thread_ ELSE @])
          : l \in { Lock(s) } })

\* Scheduler::cleanup_dead_threads from entry i of queue q on.  A Dead
\* thread is deleted and its entry erased; freed is what the state field of
\* the destroyed object reads as from then on.
RECURSIVE cleanup_from(_, _, _, _)
cleanup_from(s, q, i, freed) ==
    IF q >= RUN_QUEUES THEN s
    ELSE IF i > Len(s.run_queues_[q].threads) THEN cleanup_from(s, q + 1, 1, freed)
    ELSE LET t == s.run_queues_[q].threads[i]
         IN IF s.threads[t].state = "Dead"
            THEN The({ cleanup_from(n, q, i, freed) : n \in {
                   [s EXCEPT
                      !.current_thread_ = IF t = @ THEN s.idle_thread_ ELSE @,
                      !.deleted = @ \cup { t },
                      !.threads[t].state = freed,
                      !.run_queues_[q].threads = erase(@, i)] } })
            ELSE cleanup_from(s, q, i + 1, freed)

cleanup_dead_threads(s, freed) == cleanup_from(s, 0, 1, freed)

\* A call that leaves the scheduler in state s and returns ret.
Ret(s, ret) == [s |-> s, ret |-> ret]

\* A selection pass that looks for Ready threads only, from the head of
\* each queue.
RECURSIVE select_ready_only(_, _, _)
select_ready_only(s, p, i) ==
    IF p >= RUN_QUEUES THEN Ret(s, s.idle_thread_)
    ELSE IF i > Len(s.run_queues_[p].threads) THEN select_ready_only(s, p + 1, 1)
    ELSE LET t == s.run_queues_[p].threads[i]
         IN IF validate_thread(s, t) /\ s.threads[t].state = "Ready"
            THEN Ret(s, t)
            ELSE select_ready_only(s, p, i + 1)

select_next_thread_ready_only(s, freed) ==
    The({ select_ready_only(c, 0, 1) : c \in { cleanup_dead_threads(s, freed) } })

\* The loops of select_next_thread: queue p, i entries of it visited.
RECURSIVE select_from(_, _, _)
select_from(s, p, i) ==
    IF p >= RUN_QUEUES THEN Ret(s, s.idle_thread_)
    ELSE IF i >= Len(s.run_queues_[p].threads) THEN select_from(s, p + 1, 0)
    ELSE
      LET queue == s.run_queues_[p]
          index == queue.current_index % Len(queue.threads)
          t == queue.threads[index + 1]
      IN The({
           IF validate_thread(a, t) /\ a.threads[t].state = "Ready"
             THEN Ret(a, t)
           ELSE IF validate_thread(a, t) /\ should_wake_up(a, t, a.clock)
             THEN Ret([a EXCEPT !.threads[t].state = "Ready"], t)
           ELSE select_from(a, p, i + 1)
           : a \in { [s EXCEPT !.run_queues_[p].current_index =
                                  (index + 1) % Len(queue.threads)] } })

\* Scheduler::select_next_thread
select_next_thread(s, freed) ==
    The({ select_from(c, 0, 0) : c \in { cleanup_dead_threads(s, freed) } })

\* Scheduler::switch_to_thread
switch_to_thread(s, t) ==
    IF t = None \/ t = s.current_thread_ THEN s
    ELSE
      LET old_thread == s.current_thread_
          requeue == /\ old_thread # None
                     /\ old_thread # s.idle_thread_
                     /\ s.threads[old_thread].state = "Running"
      IN The({ IF n.hung THEN n
               ELSE [n EXCEPT !.threads[t].state = "Running",
                              !.last_schedule_time_ = n.clock]
               : n \in { IF requeue
                         THEN add_thread([s EXCEPT
                                            !.current_thread_ = t,
                                            !.threads[old_thread].state = "Ready"],
                                         old_thread)
                         ELSE [s EXCEPT !.current_thread_ = t] } })

\* Scheduler::yield
yield(s, freed) ==
    The({ IF l.hung THEN l
          ELSE IF l.current_thread_ = l.idle_thread_ THEN Unlock(l)
          ELSE The({ IF r.ret # None /\ r.ret # r.s.current_thread_
                     THEN Unlock(switch_to_thread(r.s, r.ret))
                     ELSE Unlock(r.s)
                     : r \in { select_next_thread(l, freed) } })
          : l \in { Lock(s) } })

\* Scheduler::sleep
sleep(s, milliseconds, freed) ==
    The({ IF l.hung THEN l
          ELSE IF l.current_thread_ = l.idle_thread_ THEN Unlock(l)
          ELSE The({ IF r.ret # None
                     THEN Unlock(switch_to_thread(r.s, r.ret))
                     ELSE Unlock(r.s)
                     : r \in { select_next_thread(
                                 [l EXCEPT
                                    !.threads[l.current_thread_] =
                                       [ state |-> "Sleeping",
                                         sleep_until |-> l.clock +
                                            milliseconds * CYCLES_PER_MS ]],
                                 freed) } })
          : l \in { Lock(s) } })

\* Scheduler::wake_up
wake_up(s, t) ==
    The({ IF l.hung THEN l
          ELSE IF t = None \/ l.threads[t].state # "Sleeping" THEN Unlock(l)
          ELSE Unlock(add_thread([l EXCEPT !.threads[t].state = "Ready"], t))
          : l \in { Lock(s) } })

\* The threads that have an entry in a run queue.
Queued(s) ==
    UNION { { s.run_queues_[q].threads[i] : i \in DOMAIN s.run_queues_[q].threads }
            : q \in DOMAIN s.run_queues_ }

\* handle_timer_tick, with preemptible the outcome of its test
\* current_thread_ != idle_thread_.
tick_body(s, freed, preemptible) ==
    The({ IF l.hung THEN l
          ELSE The({
            IF a.hung THEN a
            ELSE Unlock(cleanup_dead_threads(
                   [a EXCEPT !.threads =
                      [ t \in DOMAIN a.threads |->
                          IF t \in Queued(a) /\ should_wake_up(a, t, a.clock)
                          THEN [ a.threads[t] EXCEPT !.state = "Ready" ]
                          ELSE a.threads[t] ]],
                   freed))
            : a \in {
              IF /\ preemptible
                 /\ l.clock - l.last_schedule_time_ >
                       calculate_time_slice(l, l.current_thread_)
              THEN The({ IF r.ret # None /\ r.ret # r.s.current_thread_
                         THEN switch_to_thread(r.s, r.ret)
                         ELSE r.s
                         : r \in { select_next_thread(l, freed) } })
              ELSE l } })
          : l \in { Lock(s) } })

\* A timer tick that selects whatever thread is current.
handle_timer_tick_always_selects(s, freed) == tick_body(s, freed, TRUE)

\* Scheduler::handle_timer_tick
handle_timer_tick(s, freed) ==
    tick_body(s, freed, s.current_thread_ # s.idle_thread_)

\* Scheduler::init: the idle process and its thread are created, and the
\* idle thread is made Running and current.
sched_init(s) ==
    The({ IF l.hung THEN l
          ELSE Unlock([l EXCEPT
                 !.inited = TRUE,
                 !.threads = [ t \in DOMAIN l.threads \cup { IdleThread } |->
                                 IF t = IdleThread
                                 THEN [ NewThread EXCEPT !.state = "Running" ]
                                 ELSE l.threads[t] ],
                 !.idle_thread_ = IdleThread,
                 !.current_thread_ = IdleThread,
                 !.last_schedule_time_ = l.clock])
          : l \in { Lock(s) } })

(***************************************************************************)
(* Scheduler state machine.  After init, callers add, remove and wake the  *)
(* user threads, yield and sleep, and change the policy and the time       *)
(* slice; the timer interrupts every TickCycles cycles.  Code outside the  *)
(* scheduler retires a thread with Thread::set_state(Dead) and blocks one  *)
(* with set_sleep_until and set_state(Sleeping).  Nobody uses a Thread     *)
(* that has been deleted.                                                  *)
(***************************************************************************)
MaxQueued == 2
MaxClock == 6
TickCycles == 2

Policies == { "RoundRobin", "RealTime" }
TimeSlices == { 1 }
SleepMs == { 0, 1 }
FreedReads == { "Dead", "Ready" }

SchedulerOps ==
    { "init", "add_thread", "remove_thread", "yield", "sleep", "wake_up",
      "on_timer_tick", "set_scheduling_policy", "set_time_slice" }

LiveThreads(s) == DOMAIN s.threads \ s.deleted

TotalQueued(s) ==
    LET n(q) == Len(s.run_queues_[q].threads)
    IN n(0) + n(1) + n(2) + n(3)

\* What a timer tick finds: the current thread, the Ready threads of each
\* queue in queue order, and the time slice.
Snapshot(s) ==
    LET IsReady(t) == t \in LiveThreads(s) /\ s.threads[t].state = "Ready"
    IN [ current |-> s.current_thread_,
         ready |-> [ q \in DOMAIN s.run_queues_ |->
                       SelectSeq(s.run_queues_[q].threads, IsReady) ],
         slice |-> s.time_slice_default_ ]

\* The history after a call other than a timer tick.
Plain(s) == [s EXCEPT !.tick_log = << >>, !.tick_start = Snapshot(s)]

SchedReady == sched.inited /\ ~sched.hung

SchedStep(s, name, ret) ==
    /\ TotalQueued(s) <= MaxQueued
    /\ sched' = Plain(s)
    /\ lastOp' = Op(name, << >>, ret)
    /\ UNCHANGED <<pmm, vmm, tcp, net>>

SchedInit ==
    /\ ~sched.inited
    /\ SchedStep(sched_init(sched), "init", TRUE)

SchedAddThread ==
    /\ SchedReady
    /\ \E t \in LiveThreads(sched) \ { IdleThread } :
          SchedStep(add_thread(sched, t), "add_thread", None)

SchedRemoveThread ==
    /\ SchedReady
    /\ \E t \in LiveThreads(sched) \ { IdleThread } :
          SchedStep(remove_thread(sched, t), "remove_thread", None)

SchedYield ==
    /\ SchedReady
    /\ \E freed \in FreedReads :
          SchedStep(yield(sched, freed), "yield", None)

SchedSleep ==
    /\ SchedReady
    /\ \E ms \in SleepMs, freed \in FreedReads :
          SchedStep(sleep(sched, ms, freed), "sleep", None)

SchedWakeUp ==
    /\ SchedReady
    /\ \E t \in LiveThreads(sched) \ { IdleThread } :
          SchedStep(wake_up(sched, t), "wake_up", None)

\* Scheduler::on_timer_tick, TickCycles after the previous event.  The
\* call returns nothing; the record of the call keeps the threads it woke
\* and the threads it deleted.
SchedTimerTick ==
    /\ SchedReady
    /\ sched.clock + TickCycles <= MaxClock
    /\ \E freed \in FreedReads :
         \E s \in { handle_timer_tick([sched EXCEPT !.clock = @ + TickCycles], freed) } :
            /\ sched' = [s EXCEPT !.tick_log = Append(@, s.current_thread_)]
            /\ lastOp' = Op("on_timer_tick", << >>,
                            [ woken |-> { t \in LiveThreads(s) :
                                            /\ sched.threads[t].state = "Sleeping"
                                            /\ s.threads[t].state = "Ready" },
                              reaped |-> s.deleted \ sched.deleted ])
    /\ UNCHANGED <<pmm, vmm, tcp, net>>

SchedSetPolicy ==
    /\ SchedReady
    /\ \E policy \in Policies \ { sched.policy_ } :
          SchedStep([sched EXCEPT !.policy_ = policy], "set_scheduling_policy", None)

SchedSetTimeSlice ==
    /\ SchedReady
    /\ \E time_slice \in TimeSlices \ { sched.time_slice_default_ } :
          SchedStep([sched EXCEPT !.time_slice_default_ = time_slice],
                    "set_time_slice", None)

\* Thread::set_state(ThreadState::Dead) on a user thread.
ThreadExit ==
    /\ SchedReady
    /\ \E t \in LiveThreads(sched) \ { IdleThread } :
          /\ sched.threads[t].state # "Dead"
          /\ SchedStep([sched EXCEPT !.threads[t].state = "Dead"], "set_state", None)

\* Thread::set_sleep_until and set_state(ThreadState::Sleeping) on a Ready
\* user thread.
ThreadBlock ==
    /\ SchedReady
    /\ \E t \in LiveThreads(sched) \ { IdleThread }, n \in 0 .. 1 :
          /\ sched.threads[t].state = "Ready"
          /\ SchedStep([sched EXCEPT
                          !.threads[t] = [ state |-> "Sleeping",
                                           sleep_until |-> sched.clock + n * TickCycles ]],
                       "set_sleep_until", None)

NextSched ==
    \/ SchedInit
    \/ SchedAddThread
    \/ SchedRemoveThread
    \/ SchedYield
    \/ SchedSleep
    \/ SchedWakeUp
    \/ SchedTimerTick
    \/ SchedSetPolicy
    \/ SchedSetTimeSlice
    \/ ThreadExit

\* The calls made around threads that block: the policy and the time slice
\* stay as constructed.
NextSleepers ==
    \/ SchedInit
    \/ SchedAddThread
    \/ SchedRemoveThread
    \/ SchedYield
    \/ SchedSleep
    \/ SchedWakeUp
    \/ SchedTimerTick
    \/ ThreadBlock

\* The number of run-queue entries of thread t.
Entries(s, t) ==
    LET n(q) == Cardinality({ i \in DOMAIN s.run_queues_[q].threads :
                                s.run_queues_[q].threads[i] = t })
    IN n(0) + n(1) + n(2) + n(3)

\* C3: after any sequence of add_thread, remove_thread, yield, sleep,
\* wake_up and timer ticks, every thread has at most one entry across the
\* four run queues.
C3_AtMostOneEntry ==
    \A t \in DOMAIN sched.threads : Entries(sched, t) <= 1

\* C4: after a scheduler operation has completed, current_thread_ is not a
\* Dead thread; and whenever reaping finds the current thread Dead in a run
\* queue, it leaves the idle thread current.
C4_CurrentNeverDead ==
    /\ (sched.inited /\ ~sched.hung /\ lastOp.op \in SchedulerOps) =>
          /\ sched.current_thread_ \in LiveThreads(sched)
          /\ sched.threads[sched.current_thread_].state # "Dead"
    /\ sched.inited =>
          \A t \in Queued(sched) \cap LiveThreads(sched), freed \in FreedReads :
             cleanup_dead_threads(
                 [sched EXCEPT !.current_thread_ = t,
                               !.threads[t].state = "Dead"],
                 freed).current_thread_ = sched.idle_thread_

\* C4 witness: a timer tick has reaped a Dead thread and the idle thread,
\* Running, is current.
C4_Witness ==
    /\ lastOp.op = "on_timer_tick"
    /\ lastOp.ret.reaped # {}
    /\ sched.current_thread_ = sched.idle_thread_
    /\ sched.threads[sched.current_thread_].state = "Running"
    /\ Queued(sched) \cap LiveThreads(sched) # {}

\* C5: a thread whose state is Running is the scheduler's current thread
\* (so at most one thread, the idle thread included, is Running).
C5_RunningIsCurrent ==
    \A t \in LiveThreads(sched) :
       sched.threads[t].state = "Running" => t = sched.current_thread_

\* C5 witness: three timer ticks have passed with two threads queued, and
\* the current thread is Running.
C5_Witness ==
    /\ sched.inited
    /\ Len(sched.tick_log) = 3
    /\ TotalQueued(sched) = 2
    /\ sched.time_slice_default_ = 1
    /\ sched.threads[sched.current_thread_].state = "Running"

\* The entries of the run queues in the order a selection pass visits
\* them: queue after queue, each from its cursor on, wrapping around.
VisitOrder(s, p) ==
    IF p >= RUN_QUEUES THEN << >>
    ELSE LET queue == s.run_queues_[p]
             n == Len(queue.threads)
         IN [ i \in 1 .. n |-> queue.threads[((queue.current_index + i - 1) % n) + 1] ]

C7_RoundRobinFromIdle ==
    ( /\ Len(sched.tick_log) = 3
      /\ sched.tick_start.current = IdleThread
      /\ sched.tick_start.slice = 1
      /\ sched.tick_start.ready =
            [ q \in 0 .. (RUN_QUEUES - 1) |-> IF q = 1 THEN <<1, 2>> ELSE << >> ] )
    => sched.tick_log = <<1, 2, 1>>

(***************************************************************************)
(*                              TCP LAYER                                  *)
(*                                                                         *)
(* tcp.sockets is the heap of TCPSocket objects in allocation order (a     *)
(* TCPSocket* is an index into it), tcp.connections_ and                   *)
(* tcp.listening_sockets_ are the two hash maps of TCPLayer, and tcp.out   *)
(* collects the segments the running call hands to IPLayer::send_packet.   *)
(* Addresses are "any" (IPAddress(), 0.0.0.0), "host" and "peer".          *)
(* A payload is the sequence of its bytes, tcp.tsc is the timestamp        *)
(* counter that arch::CPU::read_tsc() reads, and a RingBuffer is the       *)
(* sequence of the bytes it holds, oldest first.  tcp.rx is the thread     *)
(* that calls receive: the arguments and the start time of a call that is  *)
(* in its waiting loop, and the bytes its calls have copied out so far.    *)
(* The locks are not modelled: a call that takes a lock its caller holds   *)
(* goes on as it does with a recursive Mutex.                              *)
(***************************************************************************)

\* Sequence numbers are u32, held as two 16-bit halves.
Word(hi, lo) == [ hi |-> hi, lo |-> lo ]

\* x + 1 in u32.
Inc32(x) ==
    IF x.lo = 65535 THEN Word((x.hi + 1) % 65536, 0) ELSE Word(x.hi, x.lo + 1)

\* x + n in u32, for 0 <= n < 65536.
Add32(x, n) ==
    Word((x.hi + ((x.lo + n) \div 65536)) % 65536, (x.lo + n) % 65536)

\* x - y in u32.
Sub32(x, y) ==
    IF x.lo >= y.lo
    THEN Word((x.hi - y.hi + 65536) % 65536, x.lo - y.lo)
    ELSE Word((x.hi - y.hi - 1 + 131072) % 65536, x.lo + 65536 - y.lo)

\* x < y and x <= y on u32.
Lt32(x, y) == x.hi < y.hi \/ (x.hi = y.hi /\ x.lo < y.lo)

Le32(x, y) == x = y \/ Lt32(x, y)

\* TCPSocket::TCPSocket()
TCPSocket ==
    [ state_ |-> "Closed",
      local_address_ |-> "any", local_port_ |-> 0,
      remote_address_ |-> "any", remote_port_ |-> 0,
      send_sequence_ |-> Word(0, 0), receive_sequence_ |-> Word(0, 0),
      send_unacknowledged_ |-> Word(0, 0), receive_next_expected_ |-> Word(0, 0),
      send_window_ |-> 65535, receive_window_ |-> 65535,
      maximum_segment_size_ |-> 1460,
      send_buffers_ |-> << >>, receive_buffers_ |-> << >>, receive_queue_ |-> << >>,
      retransmit_timeout_ |-> 1000000, retransmit_count_ |-> 0 ]

\* TCPLayer::TCPLayer(): both maps empty.
TcpConstructed ==
    [ sockets |-> << >>,
      connections_ |-> [ k \in {} |-> None ],
      listening_sockets_ |-> [ k \in {} |-> None ],
      out |-> << >>, tsc |-> 0,
      rx |-> [ waiting |-> FALSE, socket |-> 0, size |-> 0, timeout_ms |-> 0,
               start_time |-> 0, buffer |-> << >> ] ]

\* HashMap::operator[] followed by an assignment.
Put(map, key, value) ==
    [ k \in (DOMAIN map) \cup { key } |-> IF k = key THEN value ELSE map[k] ]

\* The ConnectionKey of a packet that arrives.
KeyOf(packet) ==
    [ local_address |-> packet.destination, local_port |-> packet.destination_port,
      remote_address |-> packet.source, remote_port |-> packet.source_port ]

\* The header is filled from the socket's ports and addresses and from the
\* segment, and goes to IPLayer::send_packet, which fails without a route
\* to remote_address_.
send_segment(t, s, segment, routed) ==
    IF routed
    THEN Ret([ t EXCEPT !.out = Append(@,
                 [ source |-> t.sockets[s].local_address_,
                   source_port |-> t.sockets[s].local_port_,
                   destination |-> t.sockets[s].remote_address_,
                   destination_port |-> t.sockets[s].remote_port_,
                   sequence_number |-> segment.sequence_number,
                   acknowledgment_number |-> segment.acknowledgment_number,
                   window_size |-> segment.window_size % 65536,
                   syn |-> segment.syn, ack |-> segment.ack,
                   fin |-> segment.fin, rst |-> segment.rst,
                   data |-> segment.data ]) ], TRUE)
    ELSE Ret(t, FALSE)

\* iss is arch::CPU::read_tsc() & 0xFFFFFFFF.
connect(t, s, address, port, iss, routed) ==
    IF t.sockets[s].state_ # "Closed"
    THEN Ret(t, FALSE)
    ELSE The({ IF r.ret
               THEN Ret([ r.s EXCEPT !.sockets[s].send_sequence_ = Inc32(@) ], TRUE)
               ELSE Ret([ r.s EXCEPT !.sockets[s].state_ = "Closed" ], FALSE)
             : r \in { send_segment(t1, s,
                         [ sequence_number |-> iss, acknowledgment_number |-> Word(0, 0),
                           window_size |-> t1.sockets[s].receive_window_,
                           syn |-> TRUE, ack |-> FALSE, fin |-> FALSE, rst |-> FALSE,
                                 data |-> << >> ],
                         routed)
                       : t1 \in { [ t EXCEPT !.sockets[s] =
                                      [ @ EXCEPT !.remote_address_ = address,
                                                 !.remote_port_ = port,
                                                 !.send_sequence_ = iss,
                                                 !.state_ = "SynSent" ] ] } } })

\* The key is entered before the socket is asked to connect, and stays when
\* the socket refuses.
connect_socket(t, s, address, port, iss, routed) ==
    The({ connect(t1, s, address, port, iss, routed)
          : t1 \in { [ t EXCEPT !.connections_ =
                         Put(@, [ local_address |-> t.sockets[s].local_address_,
                                  local_port |-> t.sockets[s].local_port_,
                                  remote_address |-> address,
                                  remote_port |-> port ], s) ] } })

is_port_available(t, port) ==
    /\ \A k \in DOMAIN t.connections_ : k.local_port # port /\ k.remote_port # port
    /\ port \notin DOMAIN t.listening_sockets_

\* TCPSocket::bind with TCPLayer::bind_socket, for port # 0 (allocate_port
\* is not modelled).  The socket takes the address and the port before the
\* layer is asked.
bind(t, s, address, port) ==
    IF t.sockets[s].state_ # "Closed"
    THEN Ret(t, FALSE)
    ELSE The({ Ret(t1, is_port_available(t1, port))
             : t1 \in { [ t EXCEPT !.sockets[s] =
                            [ @ EXCEPT !.local_address_ = address,
                                       !.local_port_ = port ] ] } })

\* TCPSocket::listen with TCPLayer::listen_socket, which always succeeds.
listen(t, s) ==
    IF t.sockets[s].state_ # "Closed"
    THEN Ret(t, FALSE)
    ELSE Ret([ t EXCEPT !.sockets[s].state_ = "Listen",
                        !.listening_sockets_ = Put(@, t.sockets[s].local_port_, s) ],
             TRUE)

process_syn(t, s, segment, routed) ==
    IF t.sockets[s].state_ = "Listen"
    THEN The({ The({ [ r.s EXCEPT !.sockets[s].send_sequence_ = Inc32(@) ]
                   : r \in { send_segment(t1, s,
                               [ sequence_number |-> t1.sockets[s].send_sequence_,
                                 acknowledgment_number |-> t1.sockets[s].receive_sequence_,
                                 window_size |-> t1.sockets[s].receive_window_,
                                 syn |-> TRUE, ack |-> TRUE, fin |-> FALSE, rst |-> FALSE,
                                 data |-> << >> ],
                               routed) } })
             : t1 \in { [ t EXCEPT !.sockets[s] =
                            [ @ EXCEPT !.state_ = "SynReceived",
                                       !.remote_address_ = segment.source,
                                       !.remote_port_ = segment.source_port,
                                       !.receive_sequence_ = Inc32(segment.sequence_number),
                                       !.receive_next_expected_ = Inc32(segment.sequence_number) ] ] } })
    ELSE t

\* Every send buffer that ends at or before the acknowledgment number is
\* marked.
acknowledge_data(sock, acknowledgment_number) ==
    [ sock EXCEPT
        !.send_buffers_ =
            [ i \in 1 .. Len(@) |->
                IF Le32(@[i].sequence_end, acknowledgment_number)
                THEN [ @[i] EXCEPT !.acknowledged = TRUE ]
                ELSE @[i] ],
        !.send_unacknowledged_ = acknowledgment_number ]

\* acknowledge_data, then update_window.
process_ack(t, s, segment) ==
    [ t EXCEPT !.sockets[s] =
        [ ( IF Lt32(@.send_unacknowledged_, segment.acknowledgment_number)
            THEN acknowledge_data(@, segment.acknowledgment_number)
            ELSE @ )
          EXCEPT !.send_window_ = segment.window_size ] ]

process_fin(t, s, segment, routed) ==
    IF t.sockets[s].state_ = "Established"
    THEN The({ send_segment(t1, s,
                   [ sequence_number |-> t1.sockets[s].send_sequence_,
                     acknowledgment_number |-> t1.sockets[s].receive_sequence_,
                     window_size |-> t1.sockets[s].receive_window_,
                     syn |-> FALSE, ack |-> TRUE, fin |-> FALSE, rst |-> FALSE,
                                 data |-> << >> ],
                   routed).s
             : t1 \in { [ t EXCEPT !.sockets[s] =
                            [ @ EXCEPT !.state_ = "CloseWait",
                                       !.receive_sequence_ = Inc32(@) ] ] } })
    ELSE t

process_rst(t, s) == [ t EXCEPT !.sockets[s].state_ = "Closed" ]

\* The sums are u32 sums.
validate_sequence(sock, sequence_number, length) ==
    \/ length = 0
    \/ /\ Le32(sock.receive_sequence_, sequence_number)
       /\ Le32(Add32(sequence_number, length),
               Add32(sock.receive_sequence_, sock.receive_window_))

\* receive_queue_(8192)
ReceiveQueueCapacity == 8192

\* sort() by sequence_start; buffers that start at the same number keep the
\* order in which they came.
RECURSIVE sort(_)
sort(buffers) ==
    IF buffers = << >>
    THEN << >>
    ELSE The({ The({ SubSeq(sorted, 1, k) \o << buffers[Len(buffers)] >>
                         \o SubSeq(sorted, k + 1, Len(sorted))
                   : k \in { Cardinality({ i \in 1 .. Len(sorted) :
                                ~Lt32(buffers[Len(buffers)].sequence_start,
                                      sorted[i].sequence_start) }) } })
             : sorted \in { sort(SubSeq(buffers, 1, Len(buffers) - 1)) } })

next_expected_any_start(sock, buffer) == ~buffer.consumed

\* The buffer the loop of reorder_buffers moves into the ring.
next_expected(sock, buffer) ==
    buffer.sequence_start = sock.receive_next_expected_ /\ ~buffer.consumed

\* The loop of reorder_buffers from the i-th buffer on: the bytes of a
\* buffer go into the ring until it is full, and the rest of them is lost.
RECURSIVE reorder_from(_, _)
reorder_from(sock, i) ==
    IF i > Len(sock.receive_buffers_)
    THEN sock
    ELSE IF next_expected(sock, sock.receive_buffers_[i])
         THEN reorder_from(
                  [ sock EXCEPT
                      !.receive_queue_ =
                          @ \o SubSeq(sock.receive_buffers_[i].data, 1,
                                      IF Len(sock.receive_buffers_[i].data)
                                            <= ReceiveQueueCapacity - Len(@)
                                      THEN Len(sock.receive_buffers_[i].data)
                                      ELSE ReceiveQueueCapacity - Len(@)),
                      !.receive_next_expected_ = sock.receive_buffers_[i].sequence_end,
                      !.receive_buffers_[i].consumed = TRUE ],
                  i + 1)
         ELSE reorder_from(sock, i + 1)

reorder_buffers(sock) ==
    reorder_from([ sock EXCEPT !.receive_buffers_ = sort(@) ], 1)

\* The acknowledged send buffers and the consumed receive buffers are erased.
cleanup_acknowledged_data(sock) ==
    [ sock EXCEPT
        !.send_buffers_ = SelectSeq(@, LAMBDA b : ~b.acknowledged),
        !.receive_buffers_ = SelectSeq(@, LAMBDA b : ~b.consumed) ]

\* The segment is buffered and the buffers are reordered; receive_sequence_
\* becomes the end of this segment, and that number is acknowledged.
process_data(t, s, segment, routed) ==
    The({ send_segment(t1, s,
              [ sequence_number |-> t1.sockets[s].send_sequence_,
                acknowledgment_number |-> t1.sockets[s].receive_sequence_,
                window_size |-> t1.sockets[s].receive_window_,
                syn |-> FALSE, ack |-> TRUE, fin |-> FALSE, rst |-> FALSE,
                data |-> << >> ],
              routed).s
        : t1 \in { [ t EXCEPT !.sockets[s] =
                       [ reorder_buffers(
                             [ @ EXCEPT !.receive_buffers_ = Append(@,
                                 [ sequence_start |-> segment.sequence_number,
                                   sequence_end |-> Add32(segment.sequence_number,
                                                          Len(segment.data)),
                                   data |-> segment.data,
                                   consumed |-> FALSE ]) ])
                         EXCEPT !.receive_sequence_ =
                                    Add32(segment.sequence_number,
                                          Len(segment.data)) ] ] } })

\* A segment that validate_sequence refuses is dropped.  The first flag
\* set, in the order syn, ack, fin, rst, picks the handler, and the payload
\* is processed when no flag is set.
receive_segment(t, s, segment, routed) ==
    IF ~validate_sequence(t.sockets[s], segment.sequence_number, Len(segment.data))
    THEN t
    ELSE IF segment.syn THEN process_syn(t, s, segment, routed)
    ELSE IF segment.ack THEN process_ack(t, s, segment)
    ELSE IF segment.fin THEN process_fin(t, s, segment, routed)
    ELSE IF segment.rst THEN process_rst(t, s)
    ELSE IF Len(segment.data) > 0 THEN process_data(t, s, segment, routed)
    ELSE t

\* TCPLayer::remove_socket: the socket's entry of connections_ and its entry
\* of listening_sockets_ are erased.
remove_socket(t, s) ==
    [ t EXCEPT
        !.connections_ =
            IF \E k \in DOMAIN @ : @[k] = s
            THEN [ k \in (DOMAIN @) \ { CHOOSE k \in DOMAIN @ : @[k] = s } |-> @[k] ]
            ELSE @,
        !.listening_sockets_ =
            IF \E k \in DOMAIN @ : @[k] = s
            THEN [ k \in (DOMAIN @) \ { CHOOSE k \in DOMAIN @ : @[k] = s } |-> @[k] ]
            ELSE @ ]

\* The loop of send when `sent` bytes of data have been sent: a chunk of at
\* most maximum_segment_size_ bytes is sent and buffered, and the window is
\* looked at after that.
RECURSIVE send_from(_, _, _, _, _)
send_from(t, s, data, sent, routed) ==
    IF sent >= Len(data)
    THEN Ret(t, sent)
    ELSE The({ The({ IF ~r.ret
                     THEN Ret(t, sent)
                     ELSE The({ IF Lt32(Word(0, t1.sockets[s].send_window_),
                                        Sub32(t1.sockets[s].send_sequence_,
                                              t1.sockets[s].send_unacknowledged_))
                                THEN Ret(t1, sent + chunk_size)
                                ELSE send_from(t1, s, data, sent + chunk_size, routed)
                              : t1 \in { [ r.s EXCEPT !.sockets[s] =
                                  [ @ EXCEPT
                                      !.send_buffers_ = Append(@,
                                          [ sequence_start |-> t.sockets[s].send_sequence_,
                                            sequence_end |->
                                                Add32(t.sockets[s].send_sequence_, chunk_size),
                                            data |-> SubSeq(data, sent + 1, sent + chunk_size),
                                            timestamp |-> t.tsc,
                                            acknowledged |-> FALSE,
                                            resent |-> 0 ]),
                                      !.send_sequence_ = Add32(@, chunk_size) ] ] } })
                   : r \in { send_segment(t, s,
                               [ sequence_number |-> t.sockets[s].send_sequence_,
                                 acknowledgment_number |-> t.sockets[s].receive_next_expected_,
                                 window_size |-> t.sockets[s].receive_window_,
                                 syn |-> FALSE, ack |-> TRUE, fin |-> FALSE, rst |-> FALSE,
                                 data |-> SubSeq(data, sent + 1, sent + chunk_size) ],
                               routed) } })
             : chunk_size \in { IF Len(data) - sent <= t.sockets[s].maximum_segment_size_
                                THEN Len(data) - sent
                                ELSE t.sockets[s].maximum_segment_size_ } })

send(t, s, data, routed) ==
    IF t.sockets[s].state_ # "Established" \/ Len(data) = 0
    THEN Ret(t, 0)
    ELSE send_from(t, s, data, 0, routed)

\* The loop of the receive call that tcp.rx describes, from its test of the
\* ring on: the call returns the number of bytes it copied, or 0 when its
\* time is over, or it goes around the loop once (then None is returned
\* here: the call has not returned).
receive_loop(t, routed) ==
    IF t.sockets[t.rx.socket].receive_queue_ = << >>
    THEN IF /\ t.rx.timeout_ms # 0
            /\ t.tsc - t.rx.start_time > t.rx.timeout_ms * 1000000
         THEN Ret([ t EXCEPT !.rx.waiting = FALSE ], 0)
         ELSE Ret([ t EXCEPT !.rx.waiting = TRUE ], None)
    ELSE The({ The({ IF to_read > 0
                     THEN Ret(send_segment(t1, t.rx.socket,
                                  [ sequence_number |-> t1.sockets[t.rx.socket].send_sequence_,
                                    acknowledgment_number |->
                                        t1.sockets[t.rx.socket].receive_next_expected_,
                                    window_size |-> t1.sockets[t.rx.socket].receive_window_,
                                    syn |-> FALSE, ack |-> TRUE, fin |-> FALSE,
                                    rst |-> FALSE, data |-> << >> ],
                                  routed).s, to_read)
                     ELSE Ret(t1, to_read)
                   : t1 \in { [ t EXCEPT
                        !.rx.waiting = FALSE,
                        !.rx.buffer = @ \o SubSeq(t.sockets[t.rx.socket].receive_queue_,
                                                  1, to_read),
                        !.sockets[t.rx.socket] =
                            [ @ EXCEPT
                                !.receive_queue_ = SubSeq(@, to_read + 1, Len(@)),
                                !.receive_window_ =
                                    ReceiveQueueCapacity
                                        - (Len(t.sockets[t.rx.socket].receive_queue_)
                                           - to_read) ] ] } })
             : to_read \in { IF t.rx.size <= Len(t.sockets[t.rx.socket].receive_queue_)
                             THEN t.rx.size
                             ELSE Len(t.sockets[t.rx.socket].receive_queue_) } })

\* TCPSocket::receive up to the first pass of its loop.
receive(t, s, size, timeout_ms, routed) ==
    IF t.sockets[s].state_ # "Established"
    THEN Ret(t, 0)
    ELSE receive_loop([ t EXCEPT !.rx.socket = s, !.rx.size = size,
                                 !.rx.timeout_ms = timeout_ms,
                                 !.rx.start_time = t.tsc ], routed)

\* TCPSocket::close (its fin_segment is declared with the type TCPSeggment,
\* read here as TCPSegment).
close(t, s, routed) ==
    IF t.sockets[s].state_ = "Closed"
    THEN Ret(t, TRUE)
    ELSE IF t.sockets[s].state_ = "Established"
         THEN The({ Ret(remove_socket(
                            [ r.s EXCEPT !.sockets[s].send_sequence_ = Inc32(@) ], s), TRUE)
                  : r \in { send_segment(t1, s,
                              [ sequence_number |-> t1.sockets[s].send_sequence_,
                                acknowledgment_number |-> t1.sockets[s].receive_next_expected_,
                                window_size |-> t1.sockets[s].receive_window_,
                                syn |-> FALSE, ack |-> TRUE, fin |-> TRUE, rst |-> FALSE,
                                data |-> << >> ],
                              routed)
                            : t1 \in { [ t EXCEPT !.sockets[s].state_ = "FinWait1" ] } } })
         ELSE Ret(remove_socket([ t EXCEPT !.sockets[s].state_ = "Closed" ], s), TRUE)

abort(t, s, routed) ==
    IF t.sockets[s].state_ = "Closed"
    THEN Ret(t, TRUE)
    ELSE The({ Ret(remove_socket(r.s, s), TRUE)
             : r \in { send_segment(t1, s,
                         [ sequence_number |-> t1.sockets[s].send_sequence_,
                           acknowledgment_number |-> t1.sockets[s].receive_next_expected_,
                           window_size |-> 0,
                           syn |-> FALSE, ack |-> FALSE, fin |-> FALSE, rst |-> TRUE,
                           data |-> << >> ],
                         routed)
                       : t1 \in { [ t EXCEPT !.sockets[s].state_ = "Closed" ] } } })

\* The send buffer that retransmit_pending_data sends again.
pending(t, s, buffer) ==
    /\ ~buffer.acknowledged
    /\ t.tsc - buffer.timestamp > t.sockets[s].retransmit_timeout_

\* The socket gives up.
exhausted(sock) == sock.retransmit_count_ > 10

\* The loop of retransmit_pending_data from the i-th send buffer on.  The
\* field resent of a send buffer counts the times the buffer was sent again;
\* the sources keep no such count, and nothing here reads it.
RECURSIVE retransmit_from(_, _, _, _)
retransmit_from(t, s, i, routed) ==
    IF i > Len(t.sockets[s].send_buffers_)
    THEN t
    ELSE IF pending(t, s, t.sockets[s].send_buffers_[i])
         THEN IF exhausted(t.sockets[s])
              THEN abort(t, s, routed).s
              ELSE The({ retransmit_from(
                             [ r.s EXCEPT !.sockets[s] =
                                 [ @ EXCEPT !.send_buffers_[i].timestamp = t.tsc,
                                            !.send_buffers_[i].resent = @ + 1,
                                            !.retransmit_count_ = @ + 1 ] ],
                             s, i + 1, routed)
                       : r \in { send_segment(t, s,
                                   [ sequence_number |->
                                         t.sockets[s].send_buffers_[i].sequence_start,
                                     acknowledgment_number |->
                                         t.sockets[s].receive_next_expected_,
                                     window_size |-> t.sockets[s].receive_window_,
                                     syn |-> FALSE, ack |-> TRUE, fin |-> FALSE,
                                     rst |-> FALSE,
                                     data |-> t.sockets[s].send_buffers_[i].data ],
                                   routed) } })
         ELSE retransmit_from(t, s, i + 1, routed)

retransmit_pending_data(t, s, routed) == retransmit_from(t, s, 1, routed)

poll(t, s, routed) ==
    The({ [ t1 EXCEPT !.sockets[s] = reorder_buffers(cleanup_acknowledged_data(@)) ]
        : t1 \in { IF t.sockets[s].state_ = "Established"
                   THEN retransmit_pending_data(t, s, routed)
                   ELSE t } })

\* A new socket is made for the packet's four addresses, put in SynReceived
\* and entered into connections_, and is then given the SYN as a segment.
handle_new_connection(t, packet, routed) ==
    IF ~packet.syn
    THEN t
    ELSE The({ receive_segment(t1, Len(t1.sockets),
                   [ packet EXCEPT !.acknowledgment_number = Word(0, 0), !.syn = TRUE,
                                   !.ack = FALSE, !.fin = FALSE, !.rst = FALSE,
                                   !.data = << >> ],
                   routed)
             : t1 \in { [ t EXCEPT
                            !.sockets = Append(@,
                                [ TCPSocket EXCEPT !.local_address_ = packet.destination,
                                                   !.local_port_ = packet.destination_port,
                                                   !.remote_address_ = packet.source,
                                                   !.remote_port_ = packet.source_port,
                                                   !.state_ = "SynReceived" ]),
                            !.connections_ = Put(@, KeyOf(packet), Len(t.sockets) + 1) ] } })

\* TCPLayer::process_packet: connections_ first, then listening_sockets_ by
\* the destination port, else the packet is dropped.
process_tcp_packet(t, packet, routed) ==
    IF KeyOf(packet) \in DOMAIN t.connections_
    THEN receive_segment(t, t.connections_[KeyOf(packet)], packet, routed)
    ELSE IF packet.destination_port \in DOMAIN t.listening_sockets_
         THEN handle_new_connection(t, packet, routed)
         ELSE t

(***************************************************************************)
(* The TCP layer as a state machine: sockets are created, bound, made to   *)
(* listen and connected by the kernel, and packets of the peer arrive      *)
(* from the IP layer.                                                      *)
(***************************************************************************)

MaxSockets == 2

\* The TCP packets the IP layer delivers during connection setup: from the
\* peer to this host, with every combination of the syn and ack flags.
TcpPackets ==
    [ source : { "peer" }, source_port : { 4000 },
      destination : { "host" }, destination_port : { 80 },
      sequence_number : { Word(0, 100) },
      acknowledgment_number : { Word(0, 8) },
      window_size : { 65535, 8192 },
      syn : BOOLEAN, ack : BOOLEAN, fin : { FALSE }, rst : { FALSE },
      data : { << >> } ]

\* A call completes: the segments it sent are reported with its result
\* (TRUE for a call that returns nothing or a new socket).
TcpStep(r, name, args) ==
    /\ Len(r.s.sockets) <= MaxSockets
    /\ tcp' = [ r.s EXCEPT !.out = << >> ]
    /\ lastOp' = Op(name, args, [ ret |-> r.ret, sent |-> r.s.out ])
    /\ UNCHANGED <<pmm, vmm, sched, net>>

TcpCreateSocket ==
    /\ Len(tcp.sockets) < MaxSockets
    /\ TcpStep(Ret([ tcp EXCEPT !.sockets = Append(@, TCPSocket) ], TRUE),
               "create_socket", << >>)

TcpBind ==
    \E s \in 1 .. Len(tcp.sockets) :
        TcpStep(bind(tcp, s, "host", 80), "bind", <<s, "host", 80>>)

TcpListen ==
    \E s \in 1 .. Len(tcp.sockets) :
        TcpStep(listen(tcp, s), "listen", <<s>>)

TcpConnect ==
    \E s \in 1 .. Len(tcp.sockets), iss \in { Word(0, 7) }, routed \in BOOLEAN :
        TcpStep(connect_socket(tcp, s, "peer", 4000, iss, routed),
                "connect_socket", <<s, "peer", 4000, routed>>)

TcpPacket ==
    \E packet \in TcpPackets, routed \in BOOLEAN :
        TcpStep(Ret(process_tcp_packet(tcp, packet, routed), TRUE),
                "process_packet", <<packet, routed>>)

(***************************************************************************)
(* One connection.  The connection socket is socket 2, which the layer     *)
(* made for the SYN of the peer that came to the listening socket 1.  No   *)
(* statement of the sources assigns TCPState::Established (C9, C10), and   *)
(* send, receive, the retransmission of poll and the FIN of close test for *)
(* that state; the methods are applied to the connection socket as the     *)
(* layer made it and to the same socket in the state Established.          *)
(***************************************************************************)

Conn == 2

ConnSyn ==
    [ source |-> "peer", source_port |-> 4000,
      destination |-> "host", destination_port |-> 80,
      sequence_number |-> Word(65535, 65535), acknowledgment_number |-> Word(0, 0),
      window_size |-> 65535,
      syn |-> TRUE, ack |-> FALSE, fin |-> FALSE, rst |-> FALSE, data |-> << >> ]

ConnMade ==
    [ process_tcp_packet(
          listen(bind([ TcpConstructed EXCEPT !.sockets = << TCPSocket >> ],
                      1, "host", 80).s, 1).s,
          ConnSyn, TRUE)
      EXCEPT !.out = << >> ]

\* The bytes of the peer's stream from sequence number `first` on: a byte is
\* the sequence number it has in the stream.
RECURSIVE Stream(_, _)
Stream(first, length) ==
    IF length = 0 THEN << >> ELSE << first >> \o Stream(Inc32(first), length - 1)

MaxBuffers == 3

MaxTicks == 4

\* More cycles than retransmit_timeout_, and than the timeout of a receive
\* of one millisecond.
TscStep == 1000001

\* Segments of two bytes, with and without the ACK flag that the segments
\* of send carry, and the peer's SYN once more.
DataPackets ==
    { [ ConnSyn EXCEPT !.syn = FALSE, !.ack = a, !.sequence_number = n,
                       !.data = Stream(n, 2) ]
      : n \in { Word(0, 0), Word(0, 2), Word(65535, 65534) }, a \in BOOLEAN }
    \cup { ConnSyn }

ConnTick ==
    /\ tcp.tsc < MaxTicks * TscStep
    /\ TcpStep(Ret([ tcp EXCEPT !.tsc = @ + TscStep ], TRUE), "tick", << >>)

ConnPoll ==
    /\ Conn \in DOMAIN tcp.sockets
    /\ TcpStep(Ret(poll(tcp, Conn, TRUE), TRUE), "poll", << >>)

StreamData ==
    \E packet \in DataPackets :
        /\ Len(tcp.sockets[Conn].receive_buffers_) < MaxBuffers
        /\ TcpStep(Ret(process_tcp_packet(tcp, packet, TRUE), TRUE), "data", << packet >>)

\* The thread of tcp.rx calls receive.
StreamReceive ==
    \E size \in { 1, 4 }, timeout_ms \in { 0, 1 } :
        /\ ~tcp.rx.waiting
        /\ TcpStep(receive(tcp, Conn, size, timeout_ms, TRUE), "receive",
                   << size, timeout_ms >>)

\* The call of tcp.rx goes around its loop.
StreamWait ==
    /\ tcp.rx.waiting
    /\ TcpStep(receive_loop(tcp, TRUE), "wait", << >>)

NextStream == StreamData \/ StreamReceive \/ StreamWait \/ ConnPoll \/ ConnTick

\* The peer's acknowledgments: of the first byte and of the first two, with
\* a window of two bytes or of 65535.
AckPackets ==
    { [ ConnSyn EXCEPT !.syn = FALSE, !.ack = TRUE, !.sequence_number = Word(0, 0),
                       !.acknowledgment_number = n, !.window_size = w ]
      : n \in { Word(0, 1), Word(0, 2) }, w \in { 2, 65535 } }

\* The application sends the next bytes of its stream.
SendCall ==
    \E size \in { 1, 2 } :
        /\ Len(tcp.sockets[Conn].send_buffers_) < MaxBuffers
        /\ TcpStep(send(tcp, Conn, Stream(tcp.sockets[Conn].send_sequence_, size), TRUE),
                   "send", << size >>)

\* The peer acknowledges bytes that were sent to it.
SendAck ==
    \E packet \in AckPackets :
        /\ Le32(packet.acknowledgment_number, tcp.sockets[Conn].send_sequence_)
        /\ TcpStep(Ret(process_tcp_packet(tcp, packet, TRUE), TRUE), "ack", << packet >>)

NextSend == SendCall \/ SendAck \/ ConnPoll \/ ConnTick

\* The peer's segments without payload that carry at least one of the flags
\* ACK, FIN and RST.
ClosePackets ==
    { p \in { [ ConnSyn EXCEPT !.syn = FALSE, !.ack = a, !.fin = f, !.rst = r,
                               !.sequence_number = n, !.acknowledgment_number = m ]
              : a \in BOOLEAN, f \in BOOLEAN, r \in BOOLEAN,
                n \in { Word(0, 0), Word(0, 1) }, m \in { Word(0, 0), Word(0, 1) } }
      : p.ack \/ p.fin \/ p.rst }

\* The application closes the connection.
CloseCall ==
    /\ Conn \in DOMAIN tcp.sockets
    /\ TcpStep(close(tcp, Conn, TRUE), "close", << >>)

\* A segment of the peer arrives at the layer.
ClosePacket ==
    \E packet \in ClosePackets :
        /\ Conn \in DOMAIN tcp.sockets
        /\ TcpStep(Ret(process_tcp_packet(tcp, packet, TRUE), TRUE), "packet", << packet >>)

NextClose == CloseCall \/ ClosePacket

NextTCP ==
    \/ TcpCreateSocket
    \/ TcpBind
    \/ TcpListen
    \/ TcpConnect
    \/ TcpPacket

\* C8: when a SYN arrives for a port with a listening socket and there is
\* no connection for the packet's 4-tuple (and a route to the peer exists),
\* then after the packet is processed the connection table holds a socket
\* in SynReceived under that 4-tuple and a SYN-ACK acknowledging the SYN's
\* sequence number + 1 has been sent to the peer.
C8_SynAckSent ==
    [][ ( /\ lastOp'.op = "process_packet"
          /\ lastOp'.args[1].syn /\ ~lastOp'.args[1].ack
          /\ lastOp'.args[2]
          /\ KeyOf(lastOp'.args[1]) \notin DOMAIN tcp.connections_
          /\ lastOp'.args[1].destination_port \in DOMAIN tcp.listening_sockets_ )
        => ( /\ KeyOf(lastOp'.args[1]) \in DOMAIN tcp'.connections_
             /\ tcp'.sockets[tcp'.connections_[KeyOf(lastOp'.args[1])]].state_
                    = "SynReceived"
             /\ \E i \in 1 .. Len(lastOp'.ret.sent) :
                    /\ lastOp'.ret.sent[i].syn
                    /\ lastOp'.ret.sent[i].ack
                    /\ lastOp'.ret.sent[i].acknowledgment_number
                           = Inc32(lastOp'.args[1].sequence_number)
                    /\ lastOp'.ret.sent[i].destination = lastOp'.args[1].source
                    /\ lastOp'.ret.sent[i].destination_port
                           = lastOp'.args[1].source_port ) ]_vars

\* C9: when a connection in SynReceived receives an ACK of the peer (the
\* ack flag without syn), the connection is in Established afterwards.
C9_AckEstablishes ==
    [][ ( /\ lastOp'.op = "process_packet"
          /\ lastOp'.args[1].ack /\ ~lastOp'.args[1].syn
          /\ KeyOf(lastOp'.args[1]) \in DOMAIN tcp.connections_
          /\ tcp.sockets[tcp.connections_[KeyOf(lastOp'.args[1])]].state_
                 = "SynReceived" )
        => tcp'.sockets[tcp.connections_[KeyOf(lastOp'.args[1])]].state_
               = "Established" ]_vars

\* C10: a connect on a Closed socket with a route to the peer sends a SYN
\* and leaves the socket in SynSent; and when a socket in SynSent receives
\* the peer's SYN-ACK for its SYN, it sends an ACK of the peer's sequence
\* number + 1 and is in Established afterwards.
C10_ActiveOpen ==
    [][ /\ ( /\ lastOp'.op = "connect_socket"
             /\ lastOp'.args[4]
             /\ tcp.sockets[lastOp'.args[1]].state_ = "Closed" )
           => ( /\ tcp'.sockets[lastOp'.args[1]].state_ = "SynSent"
                /\ \E i \in 1 .. Len(lastOp'.ret.sent) :
                       /\ lastOp'.ret.sent[i].syn
                       /\ ~lastOp'.ret.sent[i].ack )
        /\ ( /\ lastOp'.op = "process_packet"
             /\ lastOp'.args[1].syn /\ lastOp'.args[1].ack
             /\ lastOp'.args[2]
             /\ KeyOf(lastOp'.args[1]) \in DOMAIN tcp.connections_
             /\ tcp.sockets[tcp.connections_[KeyOf(lastOp'.args[1])]].state_
                    = "SynSent"
             /\ lastOp'.args[1].acknowledgment_number
                    = tcp.sockets[tcp.connections_[KeyOf(lastOp'.args[1])]].send_sequence_ )
           => ( /\ tcp'.sockets[tcp.connections_[KeyOf(lastOp'.args[1])]].state_
                       = "Established"
                /\ \E i \in 1 .. Len(lastOp'.ret.sent) :
                       /\ ~lastOp'.ret.sent[i].syn
                       /\ lastOp'.ret.sent[i].ack
                       /\ lastOp'.ret.sent[i].acknowledgment_number
                              = Inc32(lastOp'.args[1].sequence_number)
                       /\ lastOp'.ret.sent[i].destination = lastOp'.args[1].source
                       /\ lastOp'.ret.sent[i].destination_port
                              = lastOp'.args[1].source_port ) ]_vars

C12_NextExpectedMonotone ==
    [][ Sub32(tcp'.sockets[Conn].receive_next_expected_,
              tcp.sockets[Conn].receive_next_expected_).hi < 32768 ]_vars

\* Two segments were taken in order, and a poll has run since.
C12_Witness ==
    /\ tcp.sockets[Conn].receive_next_expected_ = Word(0, 4)
    /\ lastOp.op = "poll"

\* C14: a data segment that arrives ahead of receive_next_expected_ (within
\* the window) is kept in receive_buffers_; and when the segment that
\* starts at receive_next_expected_ arrives while the segment that follows
\* it is held, both are moved into the ring, receive_next_expected_ becomes
\* the end of the held segment, and an ACK is sent.
C14_RunDrained ==
    [][ ( /\ lastOp'.op = "data"
          /\ Len(lastOp'.args[1].data) > 0 )
        => /\ ( /\ Sub32(lastOp'.args[1].sequence_number,
                         tcp.sockets[Conn].receive_next_expected_).hi = 0
                /\ Sub32(lastOp'.args[1].sequence_number,
                         tcp.sockets[Conn].receive_next_expected_).lo > 0 )
              => \E i \in 1 .. Len(tcp'.sockets[Conn].receive_buffers_) :
                     /\ tcp'.sockets[Conn].receive_buffers_[i].sequence_start
                            = lastOp'.args[1].sequence_number
                     /\ ~tcp'.sockets[Conn].receive_buffers_[i].consumed
           /\ \A i \in 1 .. Len(tcp.sockets[Conn].receive_buffers_) :
                  ( /\ lastOp'.args[1].sequence_number
                           = tcp.sockets[Conn].receive_next_expected_
                    /\ ~tcp.sockets[Conn].receive_buffers_[i].consumed
                    /\ tcp.sockets[Conn].receive_buffers_[i].sequence_start
                           = Add32(lastOp'.args[1].sequence_number,
                                   Len(lastOp'.args[1].data)) )
                  => /\ tcp'.sockets[Conn].receive_next_expected_
                            = tcp.sockets[Conn].receive_buffers_[i].sequence_end
                     /\ tcp'.sockets[Conn].receive_queue_
                            = tcp.sockets[Conn].receive_queue_
                                  \o lastOp'.args[1].data
                                  \o tcp.sockets[Conn].receive_buffers_[i].data
                     /\ \E k \in 1 .. Len(lastOp'.ret.sent) :
                            /\ lastOp'.ret.sent[k].ack
                            /\ lastOp'.ret.sent[k].acknowledgment_number
                                   = tcp.sockets[Conn].receive_buffers_[i].sequence_end ]_vars

C17_RstCloses ==
    [][ ( /\ lastOp'.op = "packet"
          /\ lastOp'.args[1].rst
          /\ KeyOf(lastOp'.args[1]) \in DOMAIN tcp.connections_ )
        => tcp'.sockets[tcp.connections_[KeyOf(lastOp'.args[1])]].state_
               = "Closed" ]_vars

C28_DoubleFreeIgnored ==
    [][ lastOp'.op \in { "free_page", "free_pages" }
        => /\ pmm'.bits \subseteq pmm.bits
           /\ pmm'.free_pages_ - pmm.free_pages_ = Cardinality(pmm.bits \ pmm'.bits)
           /\ pmm.used_pages_ - pmm'.used_pages_ = Cardinality(pmm.bits \ pmm'.bits) ]_vars

\* C29: allocate_aligned(N, A) with N > 0 returns the base of N consecutive
\* frames of one region that were all free and whose first address is a
\* multiple of A (rounded up to a multiple of the page size, and at least a
\* page) whenever a region holds such a run, and fails only when none does.
C29_AlignedRunFound ==
    [][ ( /\ lastOp'.op = "allocate_aligned"
          /\ lastOp'.args[1] > 0 )
        => IF \E i \in 1 .. region_count_(pmm) :
                 \E start \in 0 .. (pmm.regions[i].total_pages - lastOp'.args[1]) :
                     /\ (pmm.regions[i].base + start * PAGE_SIZE)
                            % align_up(max(lastOp'.args[2], PAGE_SIZE), PAGE_SIZE) = 0
                     /\ \A q \in start .. (start + lastOp'.args[1] - 1) :
                            ~bitmap_test(pmm, i, q)
           THEN /\ lastOp'.ret # None
                /\ lastOp'.ret
                       % align_up(max(lastOp'.args[2], PAGE_SIZE), PAGE_SIZE) = 0
                /\ \E i \in 1 .. region_count_(pmm) :
                       \E start \in 0 .. (pmm.regions[i].total_pages - lastOp'.args[1]) :
                           /\ lastOp'.ret = pmm.regions[i].base + start * PAGE_SIZE
                           /\ \A q \in start .. (start + lastOp'.args[1] - 1) :
                                  /\ ~bitmap_test(pmm, i, q)
                                  /\ bitmap_test(pmm', i, q)
           ELSE lastOp'.ret = None ]_vars

\* C30: a kmalloc(size) call in which a frame allocation or a mapping step
\* fails returns null with the high-water mark unchanged and has released
\* every frame it allocated and every mapping it installed: the PMM holds
\* the frames it held before the call, each counted once, and no page from
\* the high-water mark on is mapped.
C30_KmallocRollback ==
    [][ (lastOp'.op = "kmalloc" /\ lastOp'.args[1] > 0 /\ lastOp'.ret = NullPtr)
        => /\ vmm'.kernel_heap_current_ = vmm.kernel_heap_current_
           /\ pmm'.bits = pmm.bits
           /\ pmm'.free_pages_ = pmm.free_pages_
           /\ pmm'.used_pages_ = pmm.used_pages_
           /\ \A i \in 0 .. 2 :
                 get_physical_address(
                    vmm', VAdd(vmm.kernel_heap_current_, i * PAGE_SIZE)) = None ]_vars

(***************************************************************************)
(*                                 UDP                                     *)
(*                                                                         *)
(* An IPv4 address is the tuple of its four bytes.  The bytes of a packet  *)
(* are a sequence of numbers 0 .. 255, counted from 1.  UDP sockets are    *)
(* numbered 1 .. MaxUdpSockets; bound_sockets_ is a function from          *)
(* SocketKey records to socket numbers.                                    *)
(*                                                                         *)
(* Locks: held is the stack of Mutex objects the running call holds, and   *)
(* order is history: the pairs <<kind of a lock held, kind of the lock     *)
(* acquired>> of every acquisition so far.  As for the scheduler,          *)
(* mutex_recursive tells whether the Mutex of the build lets its holder    *)
(* acquire it again or spins for ever (hung).                              *)
(***************************************************************************)
IPAddress(a, b, c, d) == <<a, b, c, d>>

\* IPAddress(): ipv4(0)
AnyAddress == IPAddress(0, 0, 0, 0)

\* sizeof(UDPHeader)
UDP_HEADER_SIZE == 8

\* The u16 field at bytes i, i + 1 of data as the little-endian machine
\* reads it, without the swap.
le16(data, i) == data[i] + data[i + 1] * 256

\* swap_endian_16 of the u16 field at bytes i, i + 1 of data
be16(data, i) == data[i] * 256 + data[i + 1]

\* The two bytes of the u16 field that swap_endian_16 reads as v.
bytes16(v) == << v \div 256, v % 256 >>

MaxUdpSockets == 1
UdpSockets == 1 .. MaxUdpSockets

\* UDPSocket::UDPSocket
UDPSocketNew ==
    [ local_address_ |-> AnyAddress, local_port_ |-> 0,
      remote_address_ |-> AnyAddress, remote_port_ |-> 0,
      bound_ |-> FALSE, connected_ |-> FALSE,
      receive_queue_ |-> << >> ]

\* UDPLayer::lock_ and UDPSocket::queue_lock_
LayerLock == [ kind |-> "layer", of |-> 0 ]
SocketLock(s) == [ kind |-> "socket", of |-> s ]

\* The UDP layer after its constructor, with the sockets create_socket
\* made.  rx is the receive_from call that is waiting in its loop.
UdpConstructed ==
    [ sockets |-> [ s \in UdpSockets |-> UDPSocketNew ],
      bound_sockets_ |-> << >>,
      next_port |-> 1024,
      held |-> << >>, order |-> {}, hung |-> FALSE, mutex_recursive |-> FALSE,
      rx |-> [ waiting |-> FALSE, socket |-> 0, size |-> 0, timeout_ms |-> 0 ] ]

\* A UDP operation works on the layer u and returns it with its result.
UR(u, ret) == [ u |-> u, ret |-> ret ]

\* ScopedLock lock(l), lock.lock()
Acquire(u, l) ==
    IF u.hung THEN u
    ELSE IF (\E i \in DOMAIN u.held : u.held[i] = l) /\ ~u.mutex_recursive
      THEN [u EXCEPT !.hung = TRUE]
    ELSE [u EXCEPT
            !.order = @ \cup { << u.held[i].kind, l.kind >> : i \in DOMAIN u.held },
            !.held = Append(@, l)]

\* ~ScopedLock, lock.unlock(): the lock taken last is released.
Release(u) ==
    IF u.hung THEN u ELSE [u EXCEPT !.held = SubSeq(@, 1, Len(@) - 1)]

SocketKey(address, port) == [ address |-> address, port |-> port ]

\* UDPLayer::udp_is_port_available
udp_is_port_available(u, port) ==
    The({ IF l.hung THEN UR(l, FALSE)
          ELSE UR(Release(l), SocketKey(AnyAddress, port) \notin DOMAIN l.bound_sockets_)
          : l \in { Acquire(u, LayerLock) } })

\* UDPLayer::allocate_port
RECURSIVE allocate_port(_)
allocate_port(u) ==
    The({ IF a.u.hung THEN UR(a.u, 0)
          ELSE IF a.ret THEN UR(a.u, a.u.next_port)
          ELSE allocate_port([a.u EXCEPT
                                !.next_port = IF @ + 1 > 65535 THEN 1024 ELSE @ + 1])
          : a \in { udp_is_port_available(u, u.next_port) } })

\* UDPLayer::bind_socket
bind_socket(u, socket, address, port) ==
    The({
      IF l.hung THEN UR(l, FALSE)
      ELSE The({
        IF p.u.hung THEN UR(p.u, FALSE)
        ELSE IF SocketKey(address, p.ret) \in DOMAIN p.u.bound_sockets_
          THEN UR(Release(p.u), FALSE)
        ELSE UR(Release([p.u EXCEPT
                           !.bound_sockets_ =
                              (SocketKey(address, p.ret) :> socket) @@ @]),
                TRUE)
        : p \in { IF port = 0 THEN allocate_port(l) ELSE UR(l, port) } })
      : l \in { Acquire(u, LayerLock) } })

\* UDPSocket::bind
udp_bind(u, s, address, port) ==
    The({
      IF l.hung THEN UR(l, FALSE)
      ELSE IF l.sockets[s].bound_ THEN UR(Release(l), FALSE)
      ELSE The({
        IF r.u.hung THEN r
        ELSE IF ~r.ret
          THEN UR(Release([r.u EXCEPT !.sockets[s].bound_ = FALSE]), FALSE)
        ELSE UR(Release(r.u), TRUE)
        : r \in { bind_socket([l EXCEPT !.sockets[s].local_address_ = address,
                                        !.sockets[s].local_port_ = port,
                                        !.sockets[s].bound_ = TRUE],
                              s, address, port) } })
      : l \in { Acquire(u, SocketLock(s)) } })

\* UDPSocket::connect
udp_connect(u, s, address, port) ==
    The({
      IF l.hung THEN UR(l, FALSE)
      ELSE IF ~l.sockets[s].bound_ THEN UR(Release(l), FALSE)
      ELSE UR(Release([l EXCEPT !.sockets[s].remote_address_ = address,
                                !.sockets[s].remote_port_ = port,
                                !.sockets[s].connected_ = TRUE]),
              TRUE)
      : l \in { Acquire(u, SocketLock(s)) } })

\* UDPLayer::remove_socket
udp_remove_socket(u, socket) ==
    The({
      IF l.hung THEN l
      ELSE Release([l EXCEPT
                      !.bound_sockets_ =
                         [ k \in { k \in DOMAIN @ : @[k] # socket } |-> @[k] ]])
      : l \in { Acquire(u, LayerLock) } })

\* UDPSocket::close
udp_close(u, s) ==
    The({
      IF l.hung THEN UR(l, FALSE)
      ELSE IF ~l.sockets[s].bound_ THEN UR(Release(l), TRUE)
      ELSE The({
        IF r.hung THEN UR(r, FALSE)
        ELSE UR(Release([r EXCEPT !.sockets[s].bound_ = FALSE,
                                  !.sockets[s].connected_ = FALSE,
                                  !.sockets[s].receive_queue_ = << >>]),
                TRUE)
        : r \in { udp_remove_socket(l, s) } })
      : l \in { Acquire(u, SocketLock(s)) } })

\* UDPLayer::close_socket
udp_close_socket(u, s) ==
    The({
      IF l.hung THEN UR(l, FALSE)
      ELSE The({ IF r.u.hung THEN r ELSE UR(Release(r.u), r.ret)
                 : r \in { udp_close(l, s) } })
      : l \in { Acquire(u, LayerLock) } })

\* UDPSocket::queue_datagram; callback_ is null.
queue_datagram(u, s, datagram) ==
    The({
      IF l.hung THEN l
      ELSE IF ~l.sockets[s].bound_ THEN Release(l)
      ELSE IF datagram.destination_port # l.sockets[s].local_port_ THEN Release(l)
      ELSE IF \/ ~l.sockets[s].connected_
              \/ /\ l.sockets[s].connected_
                 /\ datagram.source_address = l.sockets[s].remote_address_
                 /\ datagram.source_port = l.sockets[s].remote_port_
        THEN Release([l EXCEPT !.sockets[s].receive_queue_ = Append(@, datagram)])
      ELSE Release(l)
      : l \in { Acquire(u, SocketLock(s)) } })

\* UDPLayer::process_udp_packet
process_udp_packet(u, packet) ==
    IF Len(packet.data) < UDP_HEADER_SIZE THEN u
    ELSE IF \/ be16(packet.data, 5) < UDP_HEADER_SIZE
            \/ be16(packet.data, 5) > Len(packet.data)
      THEN u
    ELSE The({
      IF l.hung THEN l
      ELSE IF SocketKey(packet.destination, be16(packet.data, 3))
                 \notin DOMAIN l.bound_sockets_
        THEN Release(l)
      ELSE The({ IF q.hung THEN q ELSE Release(q)
                 : q \in { queue_datagram(
                      l,
                      l.bound_sockets_[SocketKey(packet.destination,
                                                 be16(packet.data, 3))],
                      [ source_address |-> packet.source,
                        source_port |-> be16(packet.data, 1),
                        destination_address |-> packet.destination,
                        destination_port |-> be16(packet.data, 3),
                        data |-> SubSeq(packet.data, UDP_HEADER_SIZE + 1,
                                        be16(packet.data, 5)) ]) } })
      : l \in { Acquire(u, LayerLock) } })

\* UDPLayer::process_packet
udp_process_packet(u, packet) ==
    The({ IF l.hung THEN l
          ELSE The({ IF r.hung THEN r ELSE Release(r)
                     : r \in { process_udp_packet(l, packet) } })
          : l \in { Acquire(u, LayerLock) } })

\* What receive_from hands back: the bytes copied and the sender.
Received(count, buffer, address, port) ==
    [ ret |-> count, buffer |-> buffer,
      source_address |-> address, source_port |-> port ]

NotWaiting == [ waiting |-> FALSE, socket |-> 0, size |-> 0, timeout_ms |-> 0 ]

\* UDPSocket::receive_from from the test of its while loop on, with the
\* socket lock held and elapsed = current_time - start_time.  With an
\* empty queue the call stays in the loop (rx.waiting) with the lock
\* released.
receive_from_loop(u, s, size, timeout_ms, elapsed) ==
    IF u.sockets[s].receive_queue_ = << >>
    THEN IF timeout_ms # 0 /\ elapsed > timeout_ms * 1000000
         THEN UR(Release([u EXCEPT !.rx = NotWaiting]),
                 Received(0, << >>, AnyAddress, 0))
         ELSE UR(Release([u EXCEPT
                            !.rx = [ waiting |-> TRUE, socket |-> s, size |-> size,
                                     timeout_ms |-> timeout_ms ]]),
                 Received(0, << >>, AnyAddress, 0))
    ELSE LET datagram == Head(u.sockets[s].receive_queue_)
         IN UR(Release([u EXCEPT !.rx = NotWaiting,
                                 !.sockets[s].receive_queue_ = Tail(@)]),
               Received(min(size, Len(datagram.data)),
                        SubSeq(datagram.data, 1, min(size, Len(datagram.data))),
                        datagram.source_address, datagram.source_port))

\* UDPSocket::receive_from
receive_from(u, s, size, timeout_ms) ==
    The({ IF l.hung THEN UR(l, Received(0, << >>, AnyAddress, 0))
          ELSE IF ~l.sockets[s].bound_
            THEN UR(Release(l), Received(0, << >>, AnyAddress, 0))
          ELSE receive_from_loop(l, s, size, timeout_ms, 0)
          : l \in { Acquire(u, SocketLock(s)) } })

(***************************************************************************)
(* UDP state machine.  Applications bind, connect and close the sockets    *)
(* and call receive_from; the IP layer hands received packets to           *)
(* UDPLayer::process_packet.  While a receive_from call waits in its loop  *)
(* packets still arrive, from the interrupt path.                          *)
(***************************************************************************)
LocalAddress == IPAddress(192, 168, 1, 10)
PeerAddress == IPAddress(192, 168, 1, 20)
PeerPort == 40000
ServicePort == 5353

\* "hello"
Hello == << 104, 101, 108, 108, 111 >>

\* An IP packet whose payload is a UDP header with the given length field
\* followed by the bytes of payload.
UdpPacket(source, source_port, destination, destination_port, length, payload) ==
    [ source |-> source, destination |-> destination,
      data |-> bytes16(source_port) \o bytes16(destination_port)
                 \o bytes16(length) \o << 0, 0 >> \o payload ]

\* The datagram "hello" from the peer for the service port.
HelloPacket ==
    UdpPacket(PeerAddress, PeerPort, LocalAddress, ServicePort,
              UDP_HEADER_SIZE + Len(Hello), Hello)

UdpPackets ==
    { HelloPacket,
      UdpPacket(PeerAddress, PeerPort + 1, LocalAddress, ServicePort,
                UDP_HEADER_SIZE + 2, Hello),
      UdpPacket(PeerAddress, PeerPort, LocalAddress, ServicePort,
                UDP_HEADER_SIZE + Len(Hello) + 1, Hello),
      UdpPacket(PeerAddress, PeerPort, LocalAddress, ServicePort + 1,
                UDP_HEADER_SIZE + Len(Hello), Hello),
      [ source |-> PeerAddress, destination |-> LocalAddress, data |-> Hello ] }

MaxDatagrams == 1
\* The ports allocate_port hands out in the model end here.
MaxNextPort == 1025
ReceiveSizes == { 3, 8 }
ReceiveTimeouts == { 0, 1 }

UdpIdle == ~net.udp.hung /\ ~net.udp.rx.waiting

\* What a step records of a UDP call: the boolean it returned, or what
\* receive_from handed back.
Returned(ok) == [ ok |-> ok, got |-> Received(0, << >>, AnyAddress, 0) ]
Got(received) == [ ok |-> TRUE, got |-> received ]

UdpBind ==
    /\ UdpIdle
    /\ \E s \in UdpSockets, address \in { LocalAddress, AnyAddress },
          port \in { ServicePort, 0 } :
          \E r \in { udp_bind(net.udp, s, address, port) } :
             /\ r.u.next_port <= MaxNextPort
             /\ net' = [net EXCEPT !.udp = r.u]
             /\ lastOp' = Op("bind", <<s, port>>, Returned(r.ret))
    /\ UNCHANGED <<pmm, vmm, sched, tcp>>

UdpConnect ==
    /\ UdpIdle
    /\ \E s \in UdpSockets :
          \E r \in { udp_connect(net.udp, s, PeerAddress, PeerPort) } :
             /\ net' = [net EXCEPT !.udp = r.u]
             /\ lastOp' = Op("connect", <<s>>, Returned(r.ret))
    /\ UNCHANGED <<pmm, vmm, sched, tcp>>

UdpClose ==
    /\ UdpIdle
    /\ \E s \in UdpSockets :
          \E r \in { udp_close(net.udp, s) } :
             /\ net' = [net EXCEPT !.udp = r.u]
             /\ lastOp' = Op("close", <<s>>, Returned(r.ret))
    /\ UNCHANGED <<pmm, vmm, sched, tcp>>

UdpCloseSocket ==
    /\ UdpIdle
    /\ \E s \in UdpSockets :
          \E r \in { udp_close_socket(net.udp, s) } :
             /\ net' = [net EXCEPT !.udp = r.u]
             /\ lastOp' = Op("close_socket", <<s>>, Returned(r.ret))
    /\ UNCHANGED <<pmm, vmm, sched, tcp>>

UdpProcessPacket ==
    /\ ~net.udp.hung
    /\ \E packet \in UdpPackets :
          \E u \in { udp_process_packet(net.udp, packet) } :
             /\ \A s \in UdpSockets : Len(u.sockets[s].receive_queue_) <= MaxDatagrams
             /\ net' = [net EXCEPT !.udp = u]
             /\ lastOp' = Op("process_packet", <<0, packet>>, Returned(TRUE))
    /\ UNCHANGED <<pmm, vmm, sched, tcp>>

UdpReceiveFrom ==
    /\ UdpIdle
    /\ \E s \in UdpSockets, size \in ReceiveSizes, timeout_ms \in ReceiveTimeouts :
          \E r \in { receive_from(net.udp, s, size, timeout_ms) } :
             /\ net' = [net EXCEPT !.udp = r.u]
             /\ lastOp' = Op("receive_from", <<s, size, timeout_ms>>, Got(r.ret))
    /\ UNCHANGED <<pmm, vmm, sched, tcp>>

\* One more round of the loop of the waiting receive_from: lock.lock() and
\* the test of the loop, elapsed cycles after the call began.
UdpReceiveWait ==
    /\ ~net.udp.hung /\ net.udp.rx.waiting
    /\ \E elapsed \in { 0, 1000001 } :
          \E r \in { receive_from_loop(Acquire(net.udp, SocketLock(net.udp.rx.socket)),
                                       net.udp.rx.socket, net.udp.rx.size,
                                       net.udp.rx.timeout_ms, elapsed) } :
             /\ net' = [net EXCEPT !.udp = r.u]
             /\ lastOp' = Op("receive_from",
                             <<net.udp.rx.socket, net.udp.rx.size, net.udp.rx.timeout_ms>>,
                             Got(r.ret))
    /\ UNCHANGED <<pmm, vmm, sched, tcp>>

NextUDP ==
    \/ UdpBind
    \/ UdpConnect
    \/ UdpClose
    \/ UdpCloseSocket
    \/ UdpProcessPacket
    \/ UdpReceiveFrom
    \/ UdpReceiveWait

\* C21: locks are taken in the order layer, then socket: no UDP operation
\* acquires the layer lock while it holds a socket lock.
C21_LockOrder == << "socket", "layer" >> \notin net.udp.order

\* The datagram process_udp_packet makes of HelloPacket.
HelloDatagram ==
    [ source_address |-> PeerAddress, source_port |-> PeerPort,
      destination_address |-> LocalAddress, destination_port |-> ServicePort,
      data |-> Hello ]

\* Socket s is bound to (LocalAddress, ServicePort) in the layer u.
BoundToService(u, s) ==
    /\ u.sockets[s].bound_
    /\ SocketKey(LocalAddress, ServicePort) \in DOMAIN u.bound_sockets_
    /\ u.bound_sockets_[SocketKey(LocalAddress, ServicePort)] = s

IPV4_HEADER_SIZE == 20

\* a & b for a, b < 2^n
RECURSIVE AndBits(_, _, _)
AndBits(a, b, n) ==
    IF n = 0 THEN 0
    ELSE (a % 2) * (b % 2) + 2 * AndBits(a \div 2, b \div 2, n - 1)

\* IPv4Header::version, ihl, header_length
version(buffer) == buffer[1] \div 16
ihl(buffer) == buffer[1] % 16
header_length(buffer) == ihl(buffer) * 4

\* IPv4Header::fragment_offset: flags_fragment_offset & 0x1FFF
fragment_offset(buffer) == AndBits(le16(buffer, 7), 8191, 16)

\* IPv4Header::more_fragments: flags_fragment_offset & 0x2000
more_fragments(buffer) == AndBits(le16(buffer, 7), 8192, 16) # 0

\* header->source_address, header->destination_address
source_address(buffer) == SubSeq(buffer, 13, 16)
destination_address(buffer) == SubSeq(buffer, 17, 20)

\* The sum of the u16 words of data[1 .. length], and of the last byte
\* when length is odd.
RECURSIVE SumWords(_, _, _)
SumWords(data, i, length) ==
    IF length > 1 THEN le16(data, i) + SumWords(data, i + 2, length - 2)
    ELSE IF length > 0 THEN data[i]
    ELSE 0

\* while (sum >> 16) sum = (sum & 0xFFFF) + (sum >> 16)
RECURSIVE fold16(_)
fold16(sum) ==
    IF sum \div 65536 # 0 THEN fold16((sum % 65536) + (sum \div 65536)) ELSE sum

\* IPLayer::calculate_checksum
calculate_checksum(data, length) == 65535 - fold16(SumWords(data, 1, length))

\* IPLayer::validate_packet; the checksum is calculated with the field at
\* bytes 11, 12 set to 0.
validate_packet(buffer, size) ==
    /\ size >= IPV4_HEADER_SIZE
    /\ version(buffer) = 4
    /\ ihl(buffer) >= 5
    /\ header_length(buffer) <= size
    /\ le16(buffer, 11)
          = calculate_checksum([buffer EXCEPT ![11] = 0, ![12] = 0],
                               header_length(buffer))
    /\ be16(buffer, 3) <= size
    /\ be16(buffer, 3) >= header_length(buffer)

\* The IP layer after its constructor.  dispatched is history: the packets
\* offered to the protocol handlers, each with the protocols of the
\* handlers that were called.  arrived is history: the time of the latest
\* process_packet call with each fragment.  sent is history: the frame the
\* latest send_packet call handed to a device.
IpConstructed ==
    [ fragment_buffers_ |-> << >>,
      routing_table_ |-> << >>,
      interfaces_ |-> << >>,
      protocol_handlers_ |-> << >>,
      identification_counter_ |-> 0,
      tsc |-> 0, ticks |-> 0,
      dispatched |-> << >>,
      arrived |-> << >>,
      sent |-> << >> ]

\* for (handler : protocol_handlers_) if (handler.protocol ==
\* packet.protocol) handler.callback(packet, ...)
dispatch(ip, packet) ==
    [ip EXCEPT
       !.dispatched =
          Append(@, [ packet |-> packet,
                      handlers |-> SelectSeq(ip.protocol_handlers_,
                                             LAMBDA p : p = packet.protocol) ])]

\* The key of process_fragment: ((source << 32 | destination) << 16 |
\* identification) << 8 | protocol in 64 bits.  The two shifts drop the
\* upper 24 bits of the source address: its bytes 1 .. 3, counted from 0.
fragment_key(buffer) ==
    [ source0 |-> buffer[13],
      destination |-> destination_address(buffer),
      identification |-> be16(buffer, 5),
      protocol |-> buffer[10] ]

\* The offsets of a fragment map in the order the loops over
\* buffer->fragments visit them: ascending.
RECURSIVE fragments_in_order(_)
fragments_in_order(offsets) ==
    IF offsets = {} THEN << >>
    ELSE LET least == CHOOSE o \in offsets : \A p \in offsets : o <= p
         IN << least >> \o fragments_in_order(offsets \ { least })

\* The first loop of the completeness test: the number of bytes counted
\* before a fragment that does not begin at last_offset, and whether the
\* loop ran to its end.
RECURSIVE count_contiguous(_, _, _, _)
count_contiguous(fragments, order, i, last_offset) ==
    IF i > Len(order) THEN [ complete |-> TRUE, actual_len |-> last_offset ]
    ELSE IF order[i] # last_offset
      THEN [ complete |-> FALSE, actual_len |-> last_offset ]
    ELSE count_contiguous(fragments, order, i + 1,
                          last_offset + Len(fragments[order[i]]))

\* The second loop: the fragments copied one after the other.
RECURSIVE reassembled(_, _, _)
reassembled(fragments, order, i) ==
    IF i > Len(order) THEN << >>
    ELSE fragments[order[i]] \o reassembled(fragments, order, i + 1)

\* new FragmentBuffer() as process_fragment fills it in
NewFragmentBuffer(buffer, now) ==
    [ identification |-> be16(buffer, 5),
      source |-> source_address(buffer),
      destination |-> destination_address(buffer),
      protocol |-> buffer[10],
      fragments |-> << >>,
      last_accessed |-> now,
      total_length |-> 0,
      received_length |-> 0,
      is_complete |-> FALSE ]

\* IPLayer::process_fragment(header, data, size)
process_fragment(ip, buffer, size) ==
    LET key == fragment_key(buffer)
        found == IF key \in DOMAIN ip.fragment_buffers_
                 THEN ip.fragment_buffers_[key]
                 ELSE NewFragmentBuffer(buffer, ip.tsc)
        offset == (fragment_offset(buffer) * 8) % 65536
        fragment_data == SubSeq(buffer, header_length(buffer) + 1, size)
        stored == [found EXCEPT
                     !.last_accessed = ip.tsc,
                     !.fragments = (offset :> fragment_data) @@ @,
                     !.received_length = @ + Len(fragment_data),
                     !.total_length = IF ~more_fragments(buffer)
                                      THEN offset + Len(fragment_data) ELSE @]
        order == fragments_in_order(DOMAIN stored.fragments)
        counted == count_contiguous(stored.fragments, order, 1, 0)
        kept == [ip EXCEPT !.fragment_buffers_ = (key :> stored) @@ @]
    IN IF stored.total_length > 0
          /\ counted.complete /\ counted.actual_len = stored.total_length
       THEN [ dispatch(kept,
                       [ source |-> stored.source,
                         destination |-> stored.destination,
                         protocol |-> stored.protocol,
                         identification |-> stored.identification,
                         data |-> reassembled(stored.fragments, order, 1) ])
              EXCEPT !.fragment_buffers_ =
                        [ k \in DOMAIN @ \ { key } |-> @[k] ] ]
       ELSE kept

\* IPLayer::process_packet(source_mac, destination_mac, buffer, size)
ip_process_packet(ip, buffer, size) ==
    IF ~validate_packet(buffer, size) THEN ip
    ELSE IF be16(buffer, 3) > size THEN ip
    ELSE IF fragment_offset(buffer) > 0 \/ more_fragments(buffer)
      THEN process_fragment(ip, buffer, be16(buffer, 3))
    ELSE dispatch(ip,
                  [ source |-> source_address(buffer),
                    destination |-> destination_address(buffer),
                    protocol |-> buffer[10],
                    identification |-> be16(buffer, 5),
                    data |-> SubSeq(buffer, header_length(buffer) + 1,
                                    be16(buffer, 3)) ])

\* u64 timeout = 30 * 1000 * 1000 cycles, in units of 1000000 cycles
FragmentTimeout == 30

\* IPLayer::reassemble_packets
reassemble_packets(ip) ==
    [ip EXCEPT
       !.fragment_buffers_ =
          [ k \in { k \in DOMAIN @ : ~(ip.tsc - @[k].last_accessed > FragmentTimeout) }
            |-> @[k] ]]

\* IPLayer::cleanup_old_fragments
cleanup_old_fragments(ip) == reassemble_packets(ip)

\* IPLayer::poll
ip_poll(ip) == cleanup_old_fragments(ip)

\* IPLayer::register_protocol_handler; the callback of a protocol is that
\* of its layer.
register_protocol_handler(ip, protocol) ==
    IF \E i \in DOMAIN ip.protocol_handlers_ : ip.protocol_handlers_[i] = protocol
    THEN ip
    ELSE [ip EXCEPT !.protocol_handlers_ = Append(@, protocol)]

\* a & b for two addresses
And4(a, b) == [ i \in 1 .. 4 |-> AndBits(a[i], b[i], 8) ]

\* (dest_ip & mask) == (net_ip & mask)
route_matches(entry, destination) ==
    And4(destination, entry.netmask) = And4(entry.network, entry.netmask)

\* The result of find_route: whether a route was found and *route.
Found(entry) == [ found |-> TRUE, route |-> entry ]
NoRoute ==
    [ found |-> FALSE,
      route |-> [ network |-> AnyAddress, gateway |-> AnyAddress,
                  netmask |-> AnyAddress, interface_index |-> 0, metric |-> 0 ] ]

\* A lookup that compares the destination under the mask with the network
\* as it was entered.
RECURSIVE find_route_unmasked(_, _, _)
find_route_unmasked(table, destination, i) ==
    IF i > Len(table) THEN NoRoute
    ELSE IF And4(destination, table[i].netmask) = table[i].network
      THEN Found(table[i])
    ELSE find_route_unmasked(table, destination, i + 1)

\* IPLayer::find_route, from entry i of the table on.
RECURSIVE find_route(_, _, _)
find_route(table, destination, i) ==
    IF i > Len(table) THEN NoRoute
    ELSE IF route_matches(table[i], destination) THEN Found(table[i])
    ELSE find_route(table, destination, i + 1)

\* EthernetManager::get_device finds a device for these indices.
EthernetDevices == { 0 }

\* IPLayer::add_interface
add_interface(ip, device_index, address, netmask, gateway) ==
    IF device_index \notin EthernetDevices THEN UR(ip, FALSE)
    ELSE LET index == Len(ip.interfaces_)
             iface == [ index |-> index, address |-> address, netmask |-> netmask,
                        gateway |-> gateway, is_up |-> TRUE, mtu |-> 1500,
                        device |-> device_index ]
             route == [ network |-> address, gateway |-> AnyAddress,
                        netmask |-> netmask, interface_index |-> index,
                        metric |-> 0 ]
             default_route == [ network |-> AnyAddress, gateway |-> gateway,
                                netmask |-> AnyAddress, interface_index |-> index,
                                metric |-> 1 ]
         IN UR([ip EXCEPT
                  !.interfaces_ = Append(@, iface),
                  !.routing_table_ =
                     IF gateway # AnyAddress
                     THEN Append(Append(@, route), default_route)
                     ELSE Append(@, route)],
               TRUE)

\* IPLayer::add_route
add_route(ip, network, netmask, gateway, interface_index, metric) ==
    IF interface_index >= Len(ip.interfaces_) THEN UR(ip, FALSE)
    ELSE UR([ip EXCEPT
               !.routing_table_ =
                  Append(@, [ network |-> network, gateway |-> gateway,
                              netmask |-> netmask,
                              interface_index |-> interface_index,
                              metric |-> metric ])],
            TRUE)

\* IPLayer::remove_route, from entry i of the table on.
RECURSIVE remove_route(_, _, _, _)
remove_route(ip, network, netmask, i) ==
    IF i > Len(ip.routing_table_) THEN UR(ip, FALSE)
    ELSE IF ip.routing_table_[i].network = network
            /\ ip.routing_table_[i].netmask = netmask
      THEN UR([ip EXCEPT !.routing_table_ = erase(@, i)], TRUE)
    ELSE remove_route(ip, network, netmask, i + 1)

(***************************************************************************)
(* IP reassembly state machine.  Packets arrive from the Ethernet layer,   *)
(* the clock advances, and the network poll loop calls IPLayer::poll.      *)
(***************************************************************************)
\* An IPv4 packet as it is on the wire: a 20-byte header with a correct
\* checksum, the More Fragments flag and the fragment offset in units of
\* 8 bytes, and the payload.
IPv4Wire(source, destination, identification, protocol, more, offset8, payload) ==
    LET head == << 69, 0 >> \o bytes16(IPV4_HEADER_SIZE + Len(payload))
                  \o bytes16(identification)
                  \o << (IF more THEN 32 ELSE 0) + (offset8 \div 256), offset8 % 256 >>
                  \o << 64, protocol >> \o << 0, 0 >> \o source \o destination
        sum == calculate_checksum(head, IPV4_HEADER_SIZE)
    IN [head EXCEPT ![11] = sum % 256, ![12] = sum \div 256] \o payload

\* IPProtocol::UDP
PROTOCOL_UDP == 17

\* A datagram of 11 bytes in two fragments: bytes 0 .. 7 and bytes 8 .. 10.
FirstPart == << 1, 2, 3, 4, 5, 6, 7, 8 >>
LastPart == << 9, 10, 11 >>
FirstFragment == IPv4Wire(PeerAddress, LocalAddress, 7, PROTOCOL_UDP, TRUE, 0, FirstPart)
LastFragment == IPv4Wire(PeerAddress, LocalAddress, 7, PROTOCOL_UDP, FALSE, 1, LastPart)

\* A packet that is no fragment, and the same with a wrong checksum.
WholePacket == IPv4Wire(PeerAddress, LocalAddress, 8, PROTOCOL_UDP, FALSE, 0, LastPart)
BadPacket == [WholePacket EXCEPT ![11] = (@ + 1) % 256]

Fragments == { FirstFragment, LastFragment }
IpPackets == Fragments \cup { WholePacket, BadPacket }

\* 30 s in units of 1000000 cycles
ThirtySeconds == 30000

TickSteps == { FragmentTimeout + 1, ThirtySeconds }
MaxIpTicks == 2
MaxDispatched == 1
\* received_length counts every arrival; the model stops at two arrivals of
\* each fragment.
MaxReceivedLength == 22

IpRegister ==
    /\ net' = [net EXCEPT !.ip = register_protocol_handler(@, PROTOCOL_UDP)]
    /\ lastOp' = Op("register_protocol_handler", << << PROTOCOL_UDP >> >>, TRUE)
    /\ UNCHANGED <<pmm, vmm, sched, tcp>>

IpProcessPacket ==
    /\ \E packet \in IpPackets :
          \E ip \in { ip_process_packet(net.ip, packet, Len(packet)) } :
             /\ Len(ip.dispatched) <= MaxDispatched
             /\ \A k \in DOMAIN ip.fragment_buffers_ :
                   ip.fragment_buffers_[k].received_length <= MaxReceivedLength
             /\ net' = [net EXCEPT
                          !.ip = [ip EXCEPT
                                    !.arrived = IF packet \in Fragments
                                                THEN (packet :> net.ip.tsc) @@ @
                                                ELSE @]]
             /\ lastOp' = Op("process_packet", << packet >>, TRUE)
    /\ UNCHANGED <<pmm, vmm, sched, tcp>>

IpTick ==
    /\ net.ip.ticks < MaxIpTicks
    /\ \E step \in TickSteps :
          /\ net' = [net EXCEPT !.ip.tsc = @ + step, !.ip.ticks = @ + 1]
          /\ lastOp' = Op("read_tsc", << << step >> >>, TRUE)
    /\ UNCHANGED <<pmm, vmm, sched, tcp>>

IpPoll ==
    /\ net' = [net EXCEPT !.ip = ip_poll(@)]
    /\ lastOp' = Op("poll", << << >> >>, TRUE)
    /\ UNCHANGED <<pmm, vmm, sched, tcp>>

NextIP ==
    \/ IpRegister
    \/ IpProcessPacket
    \/ IpTick
    \/ IpPoll

(***************************************************************************)
(* Routing state machine.  Interfaces and routes are added and removed,    *)
(* and find_route is applied to destinations as send_packet applies it.    *)
(***************************************************************************)
Netmask24 == IPAddress(255, 255, 255, 0)
Netmask32 == IPAddress(255, 255, 255, 255)
Gateway == IPAddress(192, 168, 1, 1)

\* add_interface(device, address, netmask, gateway) calls
InterfaceRequests ==
    { << 0, LocalAddress, Netmask24, Gateway >>,
      << 0, IPAddress(10, 0, 0, 1), IPAddress(255, 0, 0, 0), AnyAddress >>,
      << 1, LocalAddress, Netmask24, AnyAddress >> }

\* add_route(network, netmask, gateway, interface_index, metric) calls
RouteRequests ==
    { << PeerAddress, Netmask32, AnyAddress, 0, 0 >>,
      << IPAddress(192, 168, 0, 0), IPAddress(255, 255, 0, 0), Gateway, 0, 5 >>,
      << IPAddress(10, 0, 0, 0), IPAddress(255, 0, 0, 0), AnyAddress, 1, 0 >> }

Destinations == { PeerAddress, IPAddress(192, 168, 7, 7), IPAddress(8, 8, 8, 8) }

MaxRoutes == 4

\* What a step records of a routing call that returns a boolean.
Done(ok) == [ found |-> ok, route |-> NoRoute.route ]

RouteAddInterface ==
    /\ \E q \in InterfaceRequests :
          \E r \in { add_interface(net.ip, q[1], q[2], q[3], q[4]) } :
             /\ Len(r.u.routing_table_) <= MaxRoutes
             /\ net' = [net EXCEPT !.ip = r.u]
             /\ lastOp' = Op("add_interface", << q[2] >>, Done(r.ret))
    /\ UNCHANGED <<pmm, vmm, sched, tcp>>

RouteAddRoute ==
    /\ \E q \in RouteRequests :
          \E r \in { add_route(net.ip, q[1], q[2], q[3], q[4], q[5]) } :
             /\ Len(r.u.routing_table_) <= MaxRoutes
             /\ net' = [net EXCEPT !.ip = r.u]
             /\ lastOp' = Op("add_route", << q[1] >>, Done(r.ret))
    /\ UNCHANGED <<pmm, vmm, sched, tcp>>

RouteRemoveRoute ==
    /\ \E q \in RouteRequests :
          \E r \in { remove_route(net.ip, q[1], q[2], 1) } :
             /\ net' = [net EXCEPT !.ip = r.u]
             /\ lastOp' = Op("remove_route", << q[1] >>, Done(r.ret))
    /\ UNCHANGED <<pmm, vmm, sched, tcp>>

RouteFind ==
    /\ \E destination \in Destinations :
          lastOp' = Op("find_route", << destination >>,
                       find_route(net.ip.routing_table_, destination, 1))
    /\ UNCHANGED <<pmm, vmm, sched, tcp, net>>

NextRoute ==
    \/ RouteAddInterface
    \/ RouteAddRoute
    \/ RouteRemoveRoute
    \/ RouteFind

(***************************************************************************)
(* Ethernet device: the transmit ring of EthernetDevice.  The ring of the  *)
(* driver has 256 descriptors; the model runs a ring of                    *)
(* tx_descriptor_count_ descriptors.  tx_index_ and tx_clean_index_ count  *)
(* up without wrapping, as in the driver, and are reduced modulo the ring  *)
(* size where a descriptor is addressed.  head counts the descriptors the  *)
(* hardware has processed: a descriptor handed to the hardware by send is  *)
(* the hardware's until the hardware has processed it and, as the RS       *)
(* command bit asks, set the done bit of its status.                       *)
(***************************************************************************)
tx_descriptor_count_ == 2
ETHERNET_HEADER_SIZE == 14
MaxFrameData == 1514

\* desc->status & 0x01
StatusDone == 1
\* desc->cmd = 0x01 | 0x02 | 0x08 | 0x10
SendCommand == 27
ReportStatus == 8

MacAddress == << 82, 84, 0, 18, 52, 86 >>
NullAddress == << >>

TransmitDescriptorZero == [ length |-> 0, cmd |-> 0, status |-> 0 ]

EthConstructed ==
    [ tx_index_ |-> 0,
      tx_clean_index_ |-> 0,
      tx_descriptors_ |-> [ i \in 0 .. tx_descriptor_count_ - 1 |-> TransmitDescriptorZero ],
      tx_buffers_ |-> [ i \in 0 .. tx_descriptor_count_ - 1 |-> << >> ],
      mac_address_ |-> MacAddress,
      tdt |-> 0,
      head |-> 0 ]

update_tx_descriptor(e, index) ==
    [e EXCEPT !.tx_descriptors_[index].cmd = 0,
              !.tx_descriptors_[index].status = 0]

RECURSIVE cleanup_tx_descriptors(_)
cleanup_tx_descriptors(e) ==
    IF e.tx_clean_index_ = e.tx_index_ THEN e
    ELSE LET desc_index == e.tx_clean_index_ % tx_descriptor_count_
         IN IF AndBits(e.tx_descriptors_[desc_index].status, StatusDone, 8) = 0
            THEN e
            ELSE cleanup_tx_descriptors(
                    [update_tx_descriptor(e, desc_index)
                        EXCEPT !.tx_clean_index_ = @ + 1])

\* The frame send builds in the transmit buffer.
EthernetFrame(e, destination, ether_type, data) ==
    destination \o e.mac_address_ \o bytes16(ether_type) \o data

\* EthernetDevice::send; size is Len(data), and a null destination or data
\* pointer is the empty sequence.
send_frame(e, destination, ether_type, data) ==
    IF destination = NullAddress \/ Len(data) = 0 THEN [u |-> e, ret |-> FALSE]
    ELSE IF Len(data) > MaxFrameData THEN [u |-> e, ret |-> FALSE]
    ELSE LET c == The({ cleanup_tx_descriptors(e) })
             desc_index == c.tx_index_ % tx_descriptor_count_
         IN IF AndBits(c.tx_descriptors_[desc_index].status, StatusDone, 8) # 0
            THEN [u |-> c, ret |-> FALSE]
            ELSE [u |-> [c EXCEPT
                           !.tx_buffers_[desc_index] =
                              EthernetFrame(c, destination, ether_type, data),
                           !.tx_descriptors_[desc_index] =
                              [ length |-> ETHERNET_HEADER_SIZE + Len(data),
                                cmd |-> SendCommand, status |-> 0 ],
                           !.tx_index_ = @ + 1,
                           !.tdt = c.tx_index_ + 1],
                  ret |-> TRUE]

\* The slots of the ring that hold a descriptor the hardware has been handed
\* and has not processed yet.
OwnedByHardware(e) ==
    { i % tx_descriptor_count_ : i \in e.head .. e.tx_index_ - 1 }

\* The hardware processes the oldest descriptor it has been handed: it sends
\* the buffer and, when the command asks for a status report, sets the done
\* bit.
transmit_next(e) ==
    LET slot == e.head % tx_descriptor_count_
    IN [e EXCEPT !.head = @ + 1,
                 !.tx_descriptors_[slot].status =
                    IF AndBits(e.tx_descriptors_[slot].cmd, ReportStatus, 8) # 0
                    THEN StatusDone ELSE @]

(***************************************************************************)
(* Ethernet state machine: the kernel sends frames and the hardware        *)
(* processes descriptors at its own pace.                                  *)
(***************************************************************************)
BroadcastAddress == << 255, 255, 255, 255, 255, 255 >>
ETHER_TYPE_IPV4 == 2048
TooLong == [ i \in 1 .. MaxFrameData + 1 |-> 0 ]
FrameData == { << >>, Hello, << 7 >>, TooLong }
FrameDestinations == { BroadcastAddress, NullAddress }
MaxTxIndex == 5

EthSend ==
    /\ net.eth.tx_index_ < MaxTxIndex
    /\ \E destination \in FrameDestinations, data \in FrameData :
          \E r \in { send_frame(net.eth, destination, ETHER_TYPE_IPV4, data) } :
             /\ net' = [net EXCEPT !.eth = r.u]
             /\ lastOp' = Op("send", << destination, data >>, r.ret)
    /\ UNCHANGED <<pmm, vmm, sched, tcp>>

EthTransmit ==
    /\ net.eth.head < net.eth.tx_index_
    /\ net' = [net EXCEPT !.eth = transmit_next(@)]
    /\ lastOp' = Op("transmit", << NullAddress, << >> >>, TRUE)
    /\ UNCHANGED <<pmm, vmm, sched, tcp>>

NextEth ==
    \/ EthSend
    \/ EthTransmit

(***************************************************************************)
(* AHCI controller: read_sectors and write_sectors.  lba and sector_count  *)
(* are u64, held in the limbs of VA, so that lba + count is the sum modulo *)
(* 2^64 the driver computes.  issued is the list of commands written to a  *)
(* port's command_issue register.                                          *)
(***************************************************************************)
\* The PortInfo probe_port records of the disk it found on hardware port
\* `number`.
PortInfo(number, sector_count, supports_48bit) ==
    [ number |-> number, initialized |-> TRUE, sector_count |-> sector_count,
      sector_size |-> 512, supports_48bit |-> supports_48bit ]

\* What is attached to a port the HBA implements: nothing that answers, or
\* a disk that reports its sector count and its addressing in IDENTIFY.
NoDevice == [ present |-> FALSE, sector_count |-> VA(0, 0, 0), supports_48bit |-> FALSE ]
Disk(sector_count, supports_48bit) ==
    [ present |-> TRUE, sector_count |-> sector_count, supports_48bit |-> supports_48bit ]

\* for (u32 i = 0; i < 32; i++)
HBA_PORTS == 32

\* The controller after its constructor.
AhciNew == [ ports_ |-> << >>, issued |-> << >> ]

\* AHCIController::probe_port: detection, reset, start and IDENTIFY succeed
\* on a port with a disk and fail on any other.
probe_port(a, port_number, device) ==
    IF port_number >= HBA_PORTS THEN [u |-> a, ret |-> FALSE]
    ELSE IF ~device.present THEN [u |-> a, ret |-> FALSE]
    ELSE [ u |-> [a EXCEPT !.ports_ =
                     Append(@, PortInfo(port_number, device.sector_count,
                                        device.supports_48bit))],
           ret |-> TRUE ]

\* AHCIController::init.  hba maps the ports the HBA implements
\* (ports_implemented_) to what is attached to them; probe_ports is the loop
\* over the port numbers, from i on.
ahci_init(a, hba) ==
    LET RECURSIVE probe_ports(_, _)
        probe_ports(c, i) ==
            IF i >= HBA_PORTS THEN c
            ELSE IF i \in DOMAIN hba
              THEN probe_ports(probe_port(c, i, hba[i]).u, i + 1)
            ELSE probe_ports(c, i + 1)
    IN The({ [ u |-> p, ret |-> Len(p.ports_) - Len(a.ports_) > 0 ]
             : p \in { probe_ports(a, 0) } })

\* An HBA with a disk of 100 sectors with 48-bit addressing on port 0 and a
\* disk of 64 sectors without on port 1.
TwoDisks == (0 :> Disk(VA(0, 0, 100), TRUE)) @@ (1 :> Disk(VA(0, 0, 64), FALSE))

\* The controller after init on that HBA.
AhciConstructed == ahci_init(AhciNew, TwoDisks).u

\* AHCIController::send_command: the command is issued in slot 0 of
\* hba_->ports[port_number], and the hardware completes it, fails it or
\* does not answer.
send_command(a, command, outcome) ==
    [ u |-> [a EXCEPT !.issued = Append(@, command)], ret |-> (outcome = "ok") ]

\* 0x40000, the bytes of one PRDT entry
PRDT_CHUNK == 262144
\* prdt_entries_needed > 8
PRDT_ENTRIES == 8

\* The loop that fills prdt_entries, from entry i on, with `remaining` bytes
\* to describe.
RECURSIVE prdt_from(_, _, _)
prdt_from(remaining, prdt_entries_needed, i) ==
    IF i >= prdt_entries_needed \/ (remaining.chunks = 0 /\ remaining.rest = 0)
    THEN << >>
    ELSE LET chunk_size == IF remaining.chunks > 0 THEN PRDT_CHUNK ELSE remaining.rest
         IN << [ byte_count |-> (chunk_size - 1) % 4194304,
                 interrupt_on_completion |->
                     IF i = prdt_entries_needed - 1 THEN 1 ELSE 0 ] >>
            \o prdt_from(IF remaining.chunks > 0
                         THEN [remaining EXCEPT !.chunks = @ - 1]
                         ELSE [remaining EXCEPT !.rest = 0],
                         prdt_entries_needed, i + 1)

\* The body read_sectors and write_sectors share.  mapped tells whether the
\* buffer has a physical address.  The command keeps the hardware port it is
\* issued on and the PRDT entries the loop has filled.  total_bytes is
\* count * info.sector_size, the product of two u32 taken modulo 2^32; it is
\* held as the number of whole chunks of 0x40000 bytes and the rest
\* (sector_size divides 0x40000).
transfer_sectors(a, port_number, lba, count, mapped, write, outcome) ==
    IF port_number >= Len(a.ports_) THEN [u |-> a, ret |-> FALSE]
    ELSE LET info == a.ports_[port_number + 1]
             per == PRDT_CHUNK \div info.sector_size
             total_bytes == [ chunks |-> (count \div per) % 16384,
                              rest |-> (count % per) * info.sector_size ]
             prdt_entries_needed ==
                 total_bytes.chunks + (IF total_bytes.rest > 0 THEN 1 ELSE 0)
         IN IF ~info.initialized THEN [u |-> a, ret |-> FALSE]
            ELSE IF VGreater(VAdd(lba, count), info.sector_count)
            THEN [u |-> a, ret |-> FALSE]
            ELSE IF count = 0 THEN [u |-> a, ret |-> TRUE]
            ELSE IF ~mapped THEN [u |-> a, ret |-> FALSE]
            ELSE IF prdt_entries_needed > PRDT_ENTRIES THEN [u |-> a, ret |-> FALSE]
            ELSE send_command(a,
                    [ port |-> port_number, write |-> write,
                      lba |-> IF info.supports_48bit
                              THEN VA(lba.hi % 512, lba.mid, lba.lo)
                              ELSE VA(0, lba.mid % 128, lba.lo),
                      count |-> IF info.supports_48bit
                                THEN count % 65536 ELSE count % 256,
                      prdt_length |-> prdt_entries_needed,
                      prdt |-> prdt_from(total_bytes, prdt_entries_needed, 0) ],
                    outcome)

read_sectors(a, port_number, lba, count, mapped, outcome) ==
    transfer_sectors(a, port_number, lba, count, mapped, 0, outcome)

write_sectors(a, port_number, lba, count, mapped, outcome) ==
    transfer_sectors(a, port_number, lba, count, mapped, 1, outcome)

(***************************************************************************)
(* AHCI state machine: the file system reads and writes sector ranges.     *)
(***************************************************************************)
\* 0xFFFFFFFFFFFFFFFF
LastLba == VA(HiLimb - 1, MidLimb - 1, LoLimb - 1)
Lbas == { VA(0, 0, 0), VA(0, 0, 63), VA(0, 0, 99), VA(0, 0, 100), LastLba }
SectorCounts == { 0, 1, 2 }
PortNumbers == { 0, 1, 2 }
Outcomes == { "ok", "timeout", "error" }
MaxCommands == 2

AhciReadSectors ==
    /\ Len(net.ahci.issued) < MaxCommands
    /\ \E port_number \in PortNumbers, lba \in Lbas, count \in SectorCounts,
          mapped \in BOOLEAN, outcome \in Outcomes :
          \E r \in { read_sectors(net.ahci, port_number, lba, count, mapped, outcome) } :
             /\ net' = [net EXCEPT !.ahci = r.u]
             /\ lastOp' = Op("read_sectors", << port_number, lba, count >>, r.ret)
    /\ UNCHANGED <<pmm, vmm, sched, tcp>>

AhciWriteSectors ==
    /\ Len(net.ahci.issued) < MaxCommands
    /\ \E port_number \in PortNumbers, lba \in Lbas, count \in SectorCounts,
          mapped \in BOOLEAN, outcome \in Outcomes :
          \E r \in { write_sectors(net.ahci, port_number, lba, count, mapped, outcome) } :
             /\ net' = [net EXCEPT !.ahci = r.u]
             /\ lastOp' = Op("write_sectors", << port_number, lba, count >>, r.ret)
    /\ UNCHANGED <<pmm, vmm, sched, tcp>>

NextAhci ==
    \/ AhciReadSectors
    \/ AhciWriteSectors

\* The network layers and the devices after construction.
NetConstructed ==
    [ udp |-> UdpConstructed, ip |-> IpConstructed, eth |-> EthConstructed,
      ahci |-> AhciConstructed ]

\* The packet the two fragments of the datagram make.
DatagramPacket ==
    [ source |-> PeerAddress, destination |-> LocalAddress,
      protocol |-> PROTOCOL_UDP, identification |-> 7,
      data |-> FirstPart \o LastPart ]

\* C22: when a fragment of the datagram arrives for the first time and the
\* other fragment has arrived no more than 30 s before (all fragments,
\* covering bytes 0 .. 10, in either order), process_packet offers the
\* handlers one more packet, the 11 bytes in offset order from the
\* datagram's source, and the fragment buffer is gone.
C22_Reassembled ==
    [][ lastOp'.op = "process_packet"
        => \A f \in Fragments : \A g \in Fragments \ { f } :
              ( /\ lastOp'.args[1] = f
                /\ f \notin DOMAIN net.ip.arrived
                /\ g \in DOMAIN net.ip.arrived
                /\ net.ip.tsc - net.ip.arrived[g] <= ThirtySeconds )
              => /\ Len(net'.ip.dispatched) = Len(net.ip.dispatched) + 1
                 /\ net'.ip.dispatched[Len(net'.ip.dispatched)].packet = DatagramPacket
                 /\ fragment_key(f) \notin DOMAIN net'.ip.fragment_buffers_ ]_vars

\* C23: IPLayer::poll removes a fragment buffer when it has been idle for
\* more than 30 s, and only then.
C23_ReapedAfterThirtySeconds ==
    [][ lastOp'.op = "poll"
        => \A k \in DOMAIN net.ip.fragment_buffers_ :
              (k \notin DOMAIN net'.ip.fragment_buffers_)
              <=> (net.ip.tsc - net.ip.fragment_buffers_[k].last_accessed
                      > ThirtySeconds) ]_vars

\* The number of one bits of a byte, and of a netmask.
RECURSIVE OneBits(_, _)
OneBits(a, n) == IF n = 0 THEN 0 ELSE (a % 2) + OneBits(a \div 2, n - 1)
PrefixLength(netmask) ==
    OneBits(netmask[1], 8) + OneBits(netmask[2], 8)
       + OneBits(netmask[3], 8) + OneBits(netmask[4], 8)

\* C24 as stated: when entries of the table match the destination
\* (network = destination & netmask), find_route returns one of them whose
\* netmask is the most specific.
C24_LongestPrefix ==
    [][ lastOp'.op = "find_route"
        => LET table == net.ip.routing_table_
               matching == { i \in DOMAIN table :
                               table[i].network
                                  = And4(lastOp'.args[1], table[i].netmask) }
           IN matching # {}
              => /\ lastOp'.ret.found
                 /\ \E i \in matching :
                       /\ lastOp'.ret.route = table[i]
                       /\ \A j \in matching :
                             PrefixLength(table[i].netmask)
                                >= PrefixLength(table[j].netmask) ]_vars

\* C24 amended: find_route returns the first entry, in the order the
\* entries were added, for which destination & netmask = network & netmask,
\* and finds no route when there is no such entry.
C24_FirstMatch ==
    [][ lastOp'.op = "find_route"
        => LET table == net.ip.routing_table_
               matching == { i \in DOMAIN table :
                               And4(lastOp'.args[1], table[i].netmask)
                                  = And4(table[i].network, table[i].netmask) }
           IN IF matching = {} THEN ~lastOp'.ret.found
              ELSE /\ lastOp'.ret.found
                   /\ lastOp'.ret.route
                         = table[CHOOSE i \in matching : \A j \in matching : i <= j] ]_vars

\* C24 witness: the lookup of the peer's address has returned the connected
\* route of the interface although the table holds a host route for it.
C24_Witness ==
    /\ lastOp.op = "find_route"
    /\ lastOp.args[1] = PeerAddress
    /\ lastOp.ret.found
    /\ lastOp.ret.route.netmask = Netmask24
    /\ \E i \in DOMAIN net.ip.routing_table_ :
          /\ net.ip.routing_table_[i].network = PeerAddress
          /\ net.ip.routing_table_[i].netmask = Netmask32

\* C26: a send whose target slot (tx_index_ modulo the ring size) still
\* belongs to the hardware returns false; a send that returns true found its
\* slot free, has put its frame into the slot's buffer and has handed the
\* slot to the hardware.
C26_SendOnlyIntoFreeSlot ==
    [][ lastOp'.op = "send"
        => LET slot == net.eth.tx_index_ % tx_descriptor_count_
           IN /\ slot \in OwnedByHardware(net.eth) => lastOp'.ret = FALSE
              /\ lastOp'.ret = TRUE
                 => /\ slot \notin OwnedByHardware(net.eth)
                    /\ net'.eth.tx_buffers_[slot]
                          = EthernetFrame(net.eth, lastOp'.args[1],
                                          ETHER_TYPE_IPV4, lastOp'.args[2])
                    /\ slot \in OwnedByHardware(net'.eth) ]_vars

\* The range [lba, lba + count) lies within the sectors of an initialized
\* port: lba + count, computed without wrapping, is at most sector_count.
RangeWithinDevice(a, port_number, lba, count) ==
    /\ port_number < Len(a.ports_)
    /\ a.ports_[port_number + 1].initialized
    /\ ~VGreater(lba, VAdd(lba, count))
    /\ ~VGreater(VAdd(lba, count), a.ports_[port_number + 1].sector_count)

\* C27: read_sectors and write_sectors issue a command only when the port
\* is initialized and the range lies within the device; otherwise they
\* return false and issue nothing.
C27_CommandOnlyWithinDevice ==
    [][ lastOp'.op \in { "read_sectors", "write_sectors" }
        => LET within == RangeWithinDevice(net.ahci, lastOp'.args[1],
                                           lastOp'.args[2], lastOp'.args[3])
           IN /\ net'.ahci.issued # net.ahci.issued => within
              /\ ~within => /\ lastOp'.ret = FALSE
                            /\ net'.ahci.issued = net.ahci.issued ]_vars

\* C38: when a successful unmap_page of v leaves a table on the path of v
\* (the page table, the page directory or the PDPT) without a present entry,
\* the table's frame is free in the PMM and its entry in the parent table is
\* cleared when the call returns.
C38_EmptiedTablesFreed ==
    [][ (lastOp'.op = "unmap_page" /\ lastOp'.ret = TRUE)
        => \A virt \in VmmVirts :
              ( /\ page_offset(virt) = 0
                /\ get_physical_address(vmm, virt) # None
                /\ get_physical_address(vmm', virt) = None )
              => \A i \in 0 .. PAGE_TABLE_LEVELS - 2 :
                    TableEmpty(vmm'.mem, table_at(vmm, virt, i))
                    => /\ is_page_free(pmm', table_at(vmm, virt, i))
                       /\ ~ReadEntry(vmm'.mem, table_at(vmm, virt, i + 1),
                                     indices(virt, i + 1)).present ]_vars

(***************************************************************************)
(* Address spaces of processes.  A space is an index into vmm.spaces; a    *)
(* deleted space keeps its index and has no PML4.  vmm.released is         *)
(* history: the spaces whose process has been destroyed.                   *)
(***************************************************************************)

\* The indexes of the present entries of a table.
PresentIndexes(mem, table) ==
    { k[2] : k \in { x \in DOMAIN mem : x[1] = table /\ mem[x].present } }

\* pmm.free_page(address); current_space_->allocated_pages--, with the list
\* of the addresses handed to free_page so far.
FreeCounted(acc, address) ==
    [ st |-> St([acc.st.vmm EXCEPT
                   !.spaces[acc.st.vmm.current_space_].allocated_pages = @ - 1],
                free_page(acc.st.pmm, address)),
      frees |-> Append(acc.frees, address) ]

\* pmm.free_page(address), with the list of the addresses handed to it.
FreeOnly(acc, address) ==
    [ st |-> St(acc.st.vmm, free_page(acc.st.pmm, address)),
      frees |-> Append(acc.frees, address) ]

\* VirtualMemoryManager::free_table; free_entries is its loop over the
\* entries idxs of the table, in ascending order.
RECURSIVE free_entries(_, _, _, _)
RECURSIVE free_table(_, _, _)
free_entries(acc, table, level, idxs) ==
    IF idxs = {} THEN acc
    ELSE LET i == CHOOSE x \in idxs : \A y \in idxs : x <= y
             address == get_address(ReadEntry(acc.st.vmm.mem, table, i))
         IN The({ free_entries(FreeCounted(below, address), table, level, idxs \ { i })
                  : below \in { IF level > 1
                                THEN free_table(acc, address, level - 1)
                                ELSE acc } })

free_table(acc, table, level) ==
    IF level = 0 THEN acc
    ELSE The({ FreeCounted(done, table)
               : done \in { free_entries(acc, table, level,
                                         PresentIndexes(acc.st.vmm.mem, table)) } })

\* The loop of destroy_address_space over the lower half of the PML4.
RECURSIVE free_lower_half(_, _, _)
free_lower_half(acc, pml4, idxs) ==
    IF idxs = {} THEN acc
    ELSE LET i == CHOOSE x \in idxs : \A y \in idxs : x <= y
         IN The({ free_lower_half(done, pml4, idxs \ { i })
                  : done \in { free_table(acc,
                                  get_address(ReadEntry(acc.st.vmm.mem, pml4, i)),
                                  3) } })

\* VirtualMemoryManager::create_address_space: the index of the new space,
\* or None.
create_address_space(st) ==
    The({ IF a.ret = None THEN Res(St(st.vmm, a.pmm), None)
          ELSE LET kernel == st.vmm.spaces[st.vmm.kernel_space_].pml4
                   zeroed == ZeroTable(st.vmm.mem, a.ret)
                   upper == { i \in PresentIndexes(zeroed, kernel) :
                                 i >= PAGE_TABLE_ENTRIES \div 2 }
                   mem == [ k \in DOMAIN zeroed \cup { << a.ret, i >> : i \in upper }
                            |-> IF k[1] = a.ret THEN zeroed[<< kernel, k[2] >>]
                                ELSE zeroed[k] ]
               IN Res(St([st.vmm EXCEPT
                            !.mem = mem,
                            !.spaces = Append(@, NewAddressSpace(a.ret))],
                         a.pmm),
                      Len(st.vmm.spaces) + 1)
          : a \in { allocate_page(st.pmm) } })

\* VirtualMemoryManager::switch_address_space (None is the null pointer).
switch_address_space(vm, space) ==
    IF space = None THEN vm
    ELSE [vm EXCEPT !.current_space_ = space,
                    !.spaces[space].reference_count = @ + 1]

\* VirtualMemoryManager::destroy_address_space, with the list of the
\* addresses it hands to pmm.free_page.
destroy_address_space(st, space) ==
    IF space = None \/ space = st.vmm.kernel_space_
    THEN [st |-> st, frees |-> << >>]
    ELSE The({
      IF dropped.vmm.spaces[space].reference_count > 0
      THEN [st |-> dropped, frees |-> << >>]
      ELSE The({
        [ st |-> St([freed.st.vmm EXCEPT
                       !.spaces[space] = [@ EXCEPT !.pml4 = None]],
                    freed.st.pmm),
          frees |-> freed.frees ]
        : freed \in { The({ FreeOnly(lower, dropped.vmm.spaces[space].pml4)
                            : lower \in { free_lower_half(
                                 [st |-> dropped, frees |-> << >>],
                                 dropped.vmm.spaces[space].pml4,
                                 { i \in PresentIndexes(dropped.vmm.mem,
                                                        dropped.vmm.spaces[space].pml4) :
                                      i < PAGE_TABLE_ENTRIES \div 2 }) } }) } })
      : dropped \in { St([st.vmm EXCEPT !.spaces[space].reference_count = @ - 1],
                         st.pmm) } })

(***************************************************************************)
(* Address-space state machine.  The machine boots with SpaceFrames frames *)
(* of memory.  Processes are created with a space of their own; the        *)
(* scheduler loads the space of the thread it switches to; a process maps  *)
(* frames it got from the PMM while its space is current; and a process is *)
(* destroyed, once, which drops the reference it holds on its space.       *)
(***************************************************************************)
SpaceFrames == 16
MaxSpaces == 3
MaxReferences == 3

SpaceBootMaps ==
    { << Entry("Free", KERNEL_PHYSICAL, SpaceFrames * PAGE_SIZE),
         Entry("KernelAndModules", KERNEL_PHYSICAL, KernelPages * PAGE_SIZE) >> }

UserVirts == { USER_BASE, VAdd(USER_BASE, PAGE_SIZE) }

\* The spaces of living processes.
LiveSpaces(vm) ==
    { s \in DOMAIN vm.spaces : s # vm.kernel_space_ /\ s \notin vm.released }

SpaceBoot == PmmInitWith(SpaceBootMaps)

SpaceCreate ==
    /\ VmmReady
    /\ Len(vmm.spaces) < MaxSpaces
    /\ \E r \in { create_address_space(St(vmm, pmm)) } :
          /\ vmm' = r.st.vmm
          /\ pmm' = r.st.pmm
          /\ lastOp' = Op("create_address_space", << 0, << >> >>, r.ret)
    /\ UNCHANGED <<sched, tcp, net>>

\* load_thread_context of a thread of a living process.
SpaceSwitch ==
    /\ VmmReady
    /\ \E s \in LiveSpaces(vmm) :
          /\ vmm.spaces[s].reference_count < MaxReferences
          /\ vmm' = switch_address_space(vmm, s)
          /\ lastOp' = Op("switch_address_space", << s, << >> >>, None)
    /\ UNCHANGED <<pmm, sched, tcp, net>>

SpaceMapPage ==
    /\ VmmReady
    /\ vmm.current_space_ \in LiveSpaces(vmm)
    /\ \E virt \in UserVirts, phys \in vmm.held :
          \E r \in { map_page(St(vmm, pmm), virt, phys,
                              {"Present", "Writable", "UserAccessible"}) } :
             /\ vmm' = r.st.vmm
             /\ pmm' = r.st.pmm
             /\ lastOp' = Op("map_page", << vmm.current_space_, << >> >>, None)
    /\ UNCHANGED <<sched, tcp, net>>

\* ~Process of a living process.
SpaceDestroy ==
    /\ VmmReady
    /\ \E s \in LiveSpaces(vmm) :
          \E r \in { destroy_address_space(St(vmm, pmm), s) } :
             /\ vmm' = [r.st.vmm EXCEPT !.released = @ \cup { s }]
             /\ pmm' = r.st.pmm
             /\ lastOp' = Op("destroy_address_space", << s, r.frees >>, None)
    /\ UNCHANGED <<sched, tcp, net>>

NextSpace ==
    \/ SpaceBoot
    \/ VmmInit
    \/ SpaceCreate
    \/ SpaceSwitch
    \/ VmmAllocFrame
    \/ SpaceMapPage
    \/ SpaceDestroy

\* The frames of the tables of the lower half of a space below a table of
\* the given level, and the frames mapped there.
RECURSIVE FramesBelow(_, _, _)
FramesBelow(mem, table, level) ==
    UNION { { get_address(mem[<< table, i >>]) }
              \cup (IF level > 0
                    THEN FramesBelow(mem, get_address(mem[<< table, i >>]), level - 1)
                    ELSE {})
            : i \in { j \in PresentIndexes(mem, table) :
                         level < PAGE_TABLE_LEVELS - 1
                         \/ j < PAGE_TABLE_ENTRIES \div 2 } }

\* C31: when the process of a space is destroyed, the reference count of
\* the space reaches zero, and the frames of its lower-half tables, the
\* frames mapped there and its PML4 are free in the PMM afterwards, each
\* handed to pmm.free_page exactly once.
C31_SpaceReleased ==
    [][ lastOp'.op = "destroy_address_space"
        => LET s == lastOp'.args[1]
               frees == lastOp'.args[2]
               pml4 == vmm.spaces[s].pml4
               frames == { pml4 } \cup FramesBelow(vmm.mem, pml4, PAGE_TABLE_LEVELS - 1)
           IN /\ vmm'.spaces[s].reference_count = 0
              /\ \A f \in frames :
                    /\ is_page_free(pmm', f)
                    /\ Cardinality({ n \in DOMAIN frees : frees[n] = f }) = 1 ]_vars

(***************************************************************************)
(* Process manager.  Every user thread t of the model is the one thread of *)
(* a process of its own, with pid t; sched.processes_ holds the pids of    *)
(* the processes in ProcessManager::processes_.                            *)
(***************************************************************************)

\* The threads of process pid (Process::threads_).
ThreadsOf(pid) == { t \in UserThreads : t = pid }

\* Process::~Process: every thread of the process is deleted.
delete_process(s, pid) ==
    [s EXCEPT !.deleted = @ \cup ThreadsOf(pid),
              !.processes_ = @ \ { pid }]

\* ProcessManager::cleanup_zombies, with the set of Zombie processes.
RECURSIVE cleanup_zombies(_, _)
cleanup_zombies(s, to_remove) ==
    IF to_remove = {} THEN s
    ELSE LET pid == CHOOSE p \in to_remove : \A q \in to_remove : p <= q
         IN The({ cleanup_zombies(deleted, to_remove \ { pid })
                  : deleted \in { IF pid \in s.processes_
                                  THEN delete_process(s, pid) ELSE s } })

\* ProcessManager::destroy_process: no other process of the model is a
\* Zombie, since a Zombie is deleted in the call that makes it one.
destroy_process(s, pid) ==
    IF pid \notin s.processes_ THEN [s |-> s, ret |-> FALSE]
    ELSE [s |-> cleanup_zombies(s, { pid }), ret |-> TRUE]

(***************************************************************************)
(* Process state machine.  Threads are added to the scheduler, yield and   *)
(* retire, and processes are destroyed.  What the scheduler does with a    *)
(* pointer to a deleted Thread is undefined: the machine makes no          *)
(* scheduler call once a run queue or current_thread_ holds one.           *)
(***************************************************************************)
Pids == UserThreads \cup { MaxThreads + 1 }

NoDeletedThreadInUse(s) ==
    /\ Queued(s) \cap s.deleted = {}
    /\ s.current_thread_ \notin s.deleted

ProcDestroy ==
    /\ SchedReady
    /\ \E pid \in Pids :
          \E r \in { destroy_process(sched, pid) } :
             SchedStep(r.s, "destroy_process", r.ret)

ProcAddThread == NoDeletedThreadInUse(sched) /\ SchedAddThread

ProcRemoveThread == NoDeletedThreadInUse(sched) /\ SchedRemoveThread

ProcYield == NoDeletedThreadInUse(sched) /\ SchedYield

ProcThreadExit == NoDeletedThreadInUse(sched) /\ ThreadExit

NextProcess ==
    \/ SchedInit
    \/ ProcAddThread
    \/ ProcRemoveThread
    \/ ProcYield
    \/ ProcThreadExit
    \/ ProcDestroy

\* C33: after destroy_process has returned true, no run queue holds a
\* thread the call deleted, and current_thread_ is none of them.
C33_NoDeletedThreadScheduled ==
    [][ (lastOp'.op = "destroy_process" /\ lastOp'.ret = TRUE)
        => \A t \in sched'.deleted \ sched.deleted :
              /\ t \notin Queued(sched')
              /\ sched'.current_thread_ # t ]_vars

\* C32: no operation acquires a lock its call chain already holds, and every
\* operation runs to completion.  In the UDP layer: the history of
\* acquisitions never holds the layer lock taken while the layer lock is
\* held, and no call is left spinning on its own lock.
C32_NoNestedAcquire ==
    /\ ~net.udp.hung
    /\ << "layer", "layer" >> \notin net.udp.order

\* C37: a bind with port 0 on an unbound UDP socket returns, and leaves the
\* socket bound under a port of at least 1024 that no socket was bound to
\* before and that is the socket's local_port_.
C37_EphemeralPortRecorded ==
    [][ ( /\ lastOp'.op = "bind"
          /\ lastOp'.args[2] = 0
          /\ ~net.udp.sockets[lastOp'.args[1]].bound_ )
        => LET s == lastOp'.args[1]
               port == net'.udp.sockets[s].local_port_
           IN /\ ~net'.udp.hung
              /\ net'.udp.sockets[s].bound_
              /\ port >= 1024
              /\ \A k \in DOMAIN net.udp.bound_sockets_ : k.port # port
              /\ \E k \in DOMAIN net'.udp.bound_sockets_ :
                    k.port = port /\ net'.udp.bound_sockets_[k] = s ]_vars

(***************************************************************************)
(* Forwarding state machine.  Interfaces are added and removed, routes are *)
(* added, and packets are sent to destinations on and off the link.        *)
(***************************************************************************)
\* IPAddress::broadcast()
IpBroadcast == IPAddress(255, 255, 255, 255)

\* EthernetHeader::Type::IPv4
ETHERTYPE_IPV4 == 2048

\* IPLayer::send_packet_to_interface; the frame handed to the device is kept
\* in sent with the device it was handed to.
send_packet_to_interface(ip, interface_index, destination, protocol, data) ==
    IF interface_index >= Len(ip.interfaces_) THEN ip
    ELSE LET iface == ip.interfaces_[interface_index + 1]
             head == << 69, 0 >> \o bytes16(IPV4_HEADER_SIZE + Len(data))
                     \o bytes16(ip.identification_counter_)
                     \o << 0, 0 >> \o << 64, protocol >> \o << 0, 0 >>
                     \o iface.address \o destination
             sum == calculate_checksum(head, IPV4_HEADER_SIZE)
             packet == [head EXCEPT ![11] = sum % 256, ![12] = sum \div 256] \o data
             destination_mac == IF destination = IpBroadcast
                                THEN BroadcastAddress
                                ELSE << 0, 0, 0, 0, 0, 0 >>
         IN [ip EXCEPT
               !.identification_counter_ = (@ + 1) % 65536,
               !.sent = Append(@, [ device |-> iface.device,
                                    destination |-> destination_mac,
                                    ether_type |-> ETHERTYPE_IPV4,
                                    data |-> packet ])]

\* IPLayer::send_packet
send_packet(ip, destination, protocol, data) ==
    The({ IF ~r.found THEN UR(ip, FALSE)
          ELSE LET next_hop == IF r.route.gateway = AnyAddress
                               THEN destination
                               ELSE r.route.gateway
               IN UR(send_packet_to_interface(ip, r.route.interface_index,
                                              next_hop, protocol, data),
                     TRUE)
          : r \in { find_route(ip.routing_table_, destination, 1) } })

\* The loop of remove_interface over the routing table, from entry i on.
RECURSIVE remove_routes_of(_, _, _)
remove_routes_of(table, interface_index, i) ==
    IF i > Len(table) THEN table
    ELSE IF table[i].interface_index = interface_index
      THEN remove_routes_of(erase(table, i), interface_index, i)
    ELSE remove_routes_of(table, interface_index, i + 1)

\* IPLayer::remove_interface
remove_interface(ip, interface_index) ==
    IF interface_index >= Len(ip.interfaces_) THEN UR(ip, FALSE)
    ELSE UR([ip EXCEPT
               !.interfaces_ = erase(@, interface_index + 1),
               !.routing_table_ = remove_routes_of(@, interface_index, 1)],
            TRUE)

MaxSends == 2
MaxInterfaces == 2
InterfaceIndexes == 0 .. MaxInterfaces
SendDestinations == Destinations \cup { IPAddress(10, 2, 3, 4) }
SendData == << 104, 105 >>

\* The destination address in the IPv4 header of a packet.
HeaderDestination(packet) == SubSeq(packet, 17, 20)

ForwardAddInterface ==
    /\ Len(net.ip.interfaces_) < MaxInterfaces
    /\ RouteAddInterface

\* The record of the call keeps the index and the number of interfaces the
\* call found.
RouteRemoveInterface ==
    /\ \E interface_index \in InterfaceIndexes :
          \E r \in { remove_interface(net.ip, interface_index) } :
             /\ net' = [net EXCEPT !.ip = r.u]
             /\ lastOp' = Op("remove_interface",
                             << interface_index, Len(net.ip.interfaces_) >>,
                             Done(r.ret))
    /\ UNCHANGED <<pmm, vmm, sched, tcp>>

RouteSend ==
    /\ net.ip.identification_counter_ < MaxSends
    /\ \E destination \in SendDestinations :
          \E r \in { send_packet([net.ip EXCEPT !.sent = << >>],
                                 destination, PROTOCOL_UDP, SendData) } :
             /\ net' = [net EXCEPT !.ip = r.u]
             /\ lastOp' = Op("send_packet", << destination >>, Done(r.ret))
    /\ UNCHANGED <<pmm, vmm, sched, tcp>>

NextForward ==
    \/ ForwardAddInterface
    \/ RouteAddRoute
    \/ RouteRemoveInterface
    \/ RouteSend

\* C34: a packet sent to a destination carries that destination in its IPv4
\* header, also when the route found for it names a gateway.
C34_HeaderKeepsDestination ==
    (lastOp.op = "send_packet" /\ lastOp.ret.found)
    => \A i \in DOMAIN net.ip.sent :
          HeaderDestination(net.ip.sent[i].data) = lastOp.args[1]

\* C39: after a call of add_interface, add_route or remove_interface every
\* route names an interface of the table, and a route that was in the table
\* before the call names the interface it named before.
C39_RoutesKeepInterface ==
    [][ lastOp'.op \in { "add_interface", "add_route", "remove_interface" }
        => \A i \in DOMAIN net'.ip.routing_table_ :
              LET route == net'.ip.routing_table_[i]
                  index == route.interface_index + 1
                  before == { net.ip.routing_table_[j] : j \in DOMAIN net.ip.routing_table_ }
              IN /\ index \in DOMAIN net'.ip.interfaces_
                 /\ route \in before
                    => /\ index \in DOMAIN net.ip.interfaces_
                       /\ net'.ip.interfaces_[index] = net.ip.interfaces_[index] ]_vars

(***************************************************************************)
(* Full ring.  The connection has taken one segment that fills the byte    *)
(* ring up to its last place; further segments arrive, the application     *)
(* reads, and the poll loop runs.                                          *)
(***************************************************************************)
\* The bytes of the peer's stream from 0 on, as Stream gives them.
StreamFromZero(length) == [ i \in 1 .. length |-> Word(0, i - 1) ]

RingFill == ReceiveQueueCapacity - 1

\* The connection after the segment that carries the first RingFill bytes.
RingFilled ==
    [ process_tcp_packet(
          [ ConnMade EXCEPT !.sockets[Conn].state_ = "Established" ],
          [ ConnSyn EXCEPT !.syn = FALSE, !.ack = FALSE,
                           !.sequence_number = Word(0, 0),
                           !.data = StreamFromZero(RingFill) ],
          TRUE)
      EXCEPT !.out = << >> ]

\* The segments that follow: two bytes each, in and out of order, with and
\* without the ACK flag.
RingPackets ==
    { [ ConnSyn EXCEPT !.syn = FALSE, !.ack = a,
                       !.sequence_number = Word(0, n),
                       !.data = Stream(Word(0, n), 2) ]
      : n \in { RingFill, RingFill + 2 }, a \in BOOLEAN }

MaxRingRead == 8

RingData ==
    \E packet \in RingPackets :
        /\ Len(tcp.sockets[Conn].receive_buffers_) < MaxBuffers
        /\ TcpStep(Ret(process_tcp_packet(tcp, packet, TRUE), TRUE), "data", << packet >>)

RingReceive ==
    /\ Len(tcp.rx.buffer) < MaxRingRead
    /\ StreamReceive

NextRing == RingData \/ RingReceive \/ ConnPoll

LargeDisk == Disk(VA(0, 4, 2), TRUE)

\* The HBAs init may find: which ports are implemented, and what is
\* attached to each.
HbaConfigs ==
    { TwoDisks,
      (1 :> Disk(VA(0, 0, 100), TRUE)),
      (0 :> NoDevice) @@ (2 :> LargeDisk),
      (0 :> LargeDisk) }

ProbeLbas == { VA(0, 0, 0), VA(0, 0, 63) }
ProbeCounts == { 1, 513, 4096, 4097, 8388608, 8388609 }

AhciInit ==
    /\ net.ahci = AhciNew
    /\ \E hba \in HbaConfigs :
          \E r \in { ahci_init(net.ahci, hba) } :
             /\ net' = [net EXCEPT !.ahci = r.u]
             /\ lastOp' = Op("init", << >>, r.ret)
    /\ UNCHANGED <<pmm, vmm, sched, tcp>>

ProbeReadSectors ==
    /\ Len(net.ahci.issued) < MaxCommands
    /\ \E port_number \in PortNumbers, lba \in ProbeLbas, count \in ProbeCounts,
          mapped \in BOOLEAN, outcome \in Outcomes :
          \E r \in { read_sectors(net.ahci, port_number, lba, count, mapped, outcome) } :
             /\ net' = [net EXCEPT !.ahci = r.u]
             /\ lastOp' = Op("read_sectors", << port_number, lba, count >>, r.ret)
    /\ UNCHANGED <<pmm, vmm, sched, tcp>>

ProbeWriteSectors ==
    /\ Len(net.ahci.issued) < MaxCommands
    /\ \E port_number \in PortNumbers, lba \in ProbeLbas, count \in ProbeCounts,
          mapped \in BOOLEAN, outcome \in Outcomes :
          \E r \in { write_sectors(net.ahci, port_number, lba, count, mapped, outcome) } :
             /\ net' = [net EXCEPT !.ahci = r.u]
             /\ lastOp' = Op("write_sectors", << port_number, lba, count >>, r.ret)
    /\ UNCHANGED <<pmm, vmm, sched, tcp>>

NextProbe ==
    \/ AhciInit
    \/ ProbeReadSectors
    \/ ProbeWriteSectors

\* The command a read_sectors or write_sectors step has issued.
IssuedNow(a) == a.issued[Len(a.issued)]

\* The sum of the lengths of PRDT entries i .. Len(prdt).
RECURSIVE PrdtBytes(_, _)
PrdtBytes(prdt, i) ==
    IF i > Len(prdt) THEN 0 ELSE prdt[i].byte_count + 1 + PrdtBytes(prdt, i + 1)

C40_PrdtCoversTransfer ==
    [][ ( /\ lastOp'.op \in { "read_sectors", "write_sectors" }
          /\ net'.ahci.issued # net.ahci.issued )
        => LET prdt == IssuedNow(net'.ahci).prdt
               info == net.ahci.ports_[lastOp'.args[1] + 1]
               count == lastOp'.args[3]
           IN /\ Len(prdt) <= PRDT_ENTRIES
              /\ \A i \in DOMAIN prdt : prdt[i].byte_count + 1 <= PRDT_CHUNK
              /\ PrdtBytes(prdt, 1) % info.sector_size = 0
              /\ PrdtBytes(prdt, 1) \div info.sector_size = count
              /\ IssuedNow(net'.ahci).prdt_length = Len(prdt)
              /\ \A i \in DOMAIN prdt :
                    prdt[i].interrupt_on_completion = 1 <=> i = Len(prdt) ]_vars

(***************************************************************************)
(*                           SPECIFICATIONS                                *)
(*                                                                         *)
(* Every specification starts from the constructed, uninitialised          *)
(* subsystems and runs the operations of one of them; the others stay as   *)
(* constructed.                                                            *)
(***************************************************************************)

Init ==
    /\ pmm = PmmConstructed
    /\ vmm = VmmConstructed
    /\ sched = SchedConstructed
    /\ tcp = TcpConstructed
    /\ net = NetConstructed
    /\ lastOp = Op("boot", << >>, None)

SpecPMM == Init /\ [][NextPMM]_vars

SpecVMM == Init /\ [][NextVMM]_vars

\* The Mutex class is not part of the sources: both a recursive and a
\* non-recursive lock are considered.

InitSched ==
    /\ pmm = PmmConstructed
    /\ vmm = VmmConstructed
    /\ sched \in { [SchedConstructed EXCEPT !.mutex_recursive = b] : b \in BOOLEAN }
    /\ tcp = TcpConstructed
    /\ net = NetConstructed
    /\ lastOp = Op("boot", << >>, None)

SpecSched == InitSched /\ [][NextSched]_vars

SpecSleepers == InitSched /\ [][NextSleepers]_vars

InitTCP ==
    /\ pmm = PmmConstructed
    /\ vmm = VmmConstructed
    /\ sched = SchedConstructed
    /\ tcp = TcpConstructed
    /\ net = NetConstructed
    /\ lastOp = Op("boot", << >>, [ ret |-> TRUE, sent |-> << >> ])

SpecTCP == InitTCP /\ [][NextTCP]_vars

InitConn ==
    /\ pmm = PmmConstructed
    /\ vmm = VmmConstructed
    /\ sched = SchedConstructed
    /\ tcp \in { ConnMade, [ ConnMade EXCEPT !.sockets[Conn].state_ = "Established" ] }
    /\ net = NetConstructed
    /\ lastOp = Op("boot", << >>, [ ret |-> TRUE, sent |-> << >> ])

SpecStream == InitConn /\ [][NextStream]_vars

SpecSend == InitConn /\ [][NextSend]_vars

SpecClose == InitConn /\ [][NextClose]_vars

SpecHeap == Init /\ [][NextHeap]_vars

InitUDP ==
    /\ pmm = PmmConstructed
    /\ vmm = VmmConstructed
    /\ sched = SchedConstructed
    /\ tcp = TcpConstructed
    /\ net \in { [NetConstructed EXCEPT !.udp.mutex_recursive = b] : b \in BOOLEAN }
    /\ lastOp = Op("boot", << >>, Returned(TRUE))

SpecUDP == InitUDP /\ [][NextUDP]_vars


InitIP ==
    /\ pmm = PmmConstructed
    /\ vmm = VmmConstructed
    /\ sched = SchedConstructed
    /\ tcp = TcpConstructed
    /\ net = NetConstructed
    /\ lastOp = Op("boot", << << >> >>, TRUE)

SpecIP == InitIP /\ [][NextIP]_vars

InitRoute ==
    /\ pmm = PmmConstructed
    /\ vmm = VmmConstructed
    /\ sched = SchedConstructed
    /\ tcp = TcpConstructed
    /\ net = NetConstructed
    /\ lastOp = Op("boot", << AnyAddress >>, Done(TRUE))

SpecRoute == InitRoute /\ [][NextRoute]_vars

InitEth ==
    /\ pmm = PmmConstructed
    /\ vmm = VmmConstructed
    /\ sched = SchedConstructed
    /\ tcp = TcpConstructed
    /\ net = NetConstructed
    /\ lastOp = Op("boot", << NullAddress, << >> >>, TRUE)

SpecEth == InitEth /\ [][NextEth]_vars

InitAhci ==
    /\ pmm = PmmConstructed
    /\ vmm = VmmConstructed
    /\ sched = SchedConstructed
    /\ tcp = TcpConstructed
    /\ net = NetConstructed
    /\ lastOp = Op("boot", << 0, VA(0, 0, 0), 0 >>, TRUE)

SpecAhci == InitAhci /\ [][NextAhci]_vars

SpecSpace == Init /\ [][NextSpace]_vars

SpecProcess == InitSched /\ [][NextProcess]_vars

SpecForward == InitRoute /\ [][NextForward]_vars

InitRing ==
    /\ pmm = PmmConstructed
    /\ vmm = VmmConstructed
    /\ sched = SchedConstructed
    /\ tcp = RingFilled
    /\ net = NetConstructed
    /\ lastOp = Op("boot", << >>, [ ret |-> TRUE, sent |-> << >> ])

SpecRing == InitRing /\ [][NextRing]_vars

InitProbe ==
    /\ pmm = PmmConstructed
    /\ vmm = VmmConstructed
    /\ sched = SchedConstructed
    /\ tcp = TcpConstructed
    /\ net = [NetConstructed EXCEPT !.ahci = AhciNew]
    /\ lastOp = Op("boot", << >>, TRUE)

SpecProbe == InitProbe /\ [][NextProbe]_vars

=========================================================================
